---- MODULE Spec2Model ----
(***************************************************************************)
(* Model of the arm64 bhyve virtual interrupt controller (vGIC v3), its    *)
(* pending-interrupt buffer, the list-register synchronizer and the        *)
(* virtual timer: sys/arm64/vmm/io/vgic_v3.c, sys/arm64/vmm/io/vtimer.c    *)
(* and the world-switch loop of sys/arm64/vmm/arm64.c.                     *)
(***************************************************************************)
EXTENDS Integers, Sequences, FiniteSets, TLC

(* ------------------------------------------------------------------ *)
(* Program constants                                                   *)
(* ------------------------------------------------------------------ *)

IRQBUF_SIZE_MIN == 32

IRQBUF_SIZE_MAX == 1024

GIC_LAST_SGI == 15

GIC_LAST_PPI == 31

GIC_LAST_SPI == 1019

\* vgic_v3.c:75
IRQ_SCHEDULED == GIC_LAST_SPI + 1

\* enum vgic_v3_irqtype: a lower value means a higher precedence
VGIC_IRQ_MAXPRIO == 0

VGIC_IRQ_CLK == 1

VGIC_IRQ_VIRTIO == 2

VGIC_IRQ_MISC == 3

VGIC_IRQ_INVALID == 4

\* the interrupt ID that vgic_v3_irqbuf_to_lr treats as the timer interrupt
TIMER_INTID == 27

\* ICH_VMCR_EL2.VPMR written by vgic_v3_cpuinit: virt_features.min_prio
MIN_PRIO == 255

(* ------------------------------------------------------------------ *)
(* Bounds of the model                                                 *)
(* ------------------------------------------------------------------ *)

\* Spec stops injecting once a buffer holds MaxBuf entries
MaxBuf == 3

\* cpu_if->ich_lr_num: the number of list registers the hardware reports
LrNum == 2

\* the virtual CPUs of the VM (VM_MAXCPU contexts)
VCPUS == {0, 1}

\* the interrupt IDs the model's callers use
IRQS == {3, 27, 30, 40, 1020}

LRS == 0 .. (LrNum - 1)

(* ------------------------------------------------------------------ *)
(* Bit arithmetic on register words                                    *)
(* ------------------------------------------------------------------ *)

\* A 32-bit word of single-bit fields (group, enable) is the set of the
\* positions of its set bits; a priority word is the tuple of its four
\* bytes, least significant first.

RECURSIVE Pow2(_)
Pow2(n) == IF n = 0 THEN 1 ELSE 2 * Pow2(n - 1)

ALL_ONES == 0 .. 31

NO_BITS == {}

\* a & b of two words of single-bit fields
BitAnd(a, b) == a \cap b

\* a & b of two small natural numbers (affinity values)
RECURSIVE NumAnd(_, _)
NumAnd(a, b) ==
    IF a = 0 \/ b = 0 THEN 0
    ELSE (a % 2) * (b % 2) + 2 * NumAnd(a \div 2, b \div 2)

\* the value of the C expression (1 << s) for a 32-bit int 1 and a shift
\* count s.  A count of 32 or more is undefined behaviour: ub_shift holds
\* what the build makes of it ("mod32": the arm64 LSL instruction takes the
\* count modulo 32; "zero": the shifted-out result).
ShiftOne(s, ub) ==
    IF s < 32 THEN {s}
    ELSE IF ub = "mod32" THEN {s % 32} ELSE NO_BITS

\* (uint8_t)((w & (0xff << off)) >> off) of a priority word w, off < 8
PrioField(w, off) ==
    (w[1] \div Pow2(off)) + (w[2] % Pow2(off)) * Pow2(8 - off)

(* ------------------------------------------------------------------ *)
(* State                                                               *)
(* ------------------------------------------------------------------ *)

VARIABLES
    dist,        \* struct vgic_v3_dist of the VM
    redist,      \* redist[v]: struct vgic_v3_redist of vCPU v
    cpu_if,      \* cpu_if[v]: struct vgic_v3_cpu_if of vCPU v
    vtimer,      \* struct vtimer of the VM
    vtimer_cpu,  \* vtimer_cpu[v]: struct vtimer_cpu and its callout
    cntpct,      \* the physical counter CNTPCT_EL0
    run,         \* run[v]: where vCPU v's thread is
    build,       \* what the build makes of undefined or configurable code
    panicked,    \* the kernel has called panic()
    locks,       \* the spin mutexes and the threads inside an operation
    last         \* the last operation completed, and the state it started in

vars == <<dist, redist, cpu_if, vtimer, vtimer_cpu, cntpct, run, build,
          panicked, locks, last>>

GroupIdx == {irq \div 32 : irq \in IRQS}

PrioIdx == {irq \div 4 : irq \in IRQS}

SPIS == {irq \in IRQS : irq > GIC_LAST_PPI}

(* ------------------------------------------------------------------ *)
(* List registers (ICH_LR<n>_EL2)                                      *)
(* ------------------------------------------------------------------ *)

\* a list register: the state field [63:62], the group bit, the priority
\* field and the virtual INTID
ZeroLr == [state |-> "inactive", group |-> 0, priority |-> 0, vintid |-> 0]

lr_pending(lr) == lr.state = "pending"

lr_inactive(lr) == lr.state = "inactive"

lr_active(lr) == lr.state = "active"

lr_pending_active(lr) == lr.state = "pending_active"

\* faulty variant: forgets the pending-active state
lr_not_active_forgets_pa(lr) == ~lr_active(lr)

lr_not_active(lr) == ~lr_active(lr) /\ ~lr_pending_active(lr)

\* clears the state field only: INTID, group and priority stay in the word
lr_clear_irq(lr) == [lr EXCEPT !.state = "inactive"]

vip_to_lr(vip) ==
    [state |-> "pending", group |-> vip.group, priority |-> vip.priority,
     vintid |-> vip.irq]

(* ------------------------------------------------------------------ *)
(* Distributor / Redistributor queries                                 *)
(* ------------------------------------------------------------------ *)

aff_routing_en(d) == "ARE_NS" \in d.gicd_ctlr

\* vgic_v3_get_int_group: irq_mask = 1 << irq, not 1 << (irq % 32)
vgic_v3_get_int_group(irq, v) ==
    LET irq_mask == ShiftOne(irq, build.ub_shift)
        n == irq \div 32
    IN  IF irq <= GIC_LAST_PPI
        THEN (IF BitAnd(redist[v].gicr_igroupr0, irq_mask) # NO_BITS THEN 1 ELSE 0)
        ELSE (IF BitAnd(dist.gicd_igroupr[n], irq_mask) # NO_BITS THEN 1 ELSE 0)

vgic_v3_group_enabled(group, v) ==
    /\ ~(group = 1 /\ "G1A" \notin dist.gicd_ctlr)
    /\ ~(group = 0 /\ "G1" \notin dist.gicd_ctlr)

vgic_v3_intid_enabled(irq, v) ==
    LET irq_mask == {irq % 32}
        n == irq \div 32
    IN  IF irq <= GIC_LAST_PPI
        THEN BitAnd(redist[v].gicr_ixenabler0, irq_mask) # NO_BITS
        ELSE BitAnd(dist.gicd_ixenabler[n], irq_mask) # NO_BITS

\* vgic_v3_get_priority: off = (irq / 4) % 4 and mask = 0xff << off
vgic_v3_get_priority(irq, v) ==
    LET n == irq \div 4
        off == n % 4
    IN  IF aff_routing_en(dist) /\ n <= 7
        THEN PrioField(redist[v].gicr_ipriorityr[n], off)
        ELSE PrioField(dist.gicd_ipriorityr[n], off)

vgic_v3_int_target(irq, v) ==
    IF irq <= GIC_LAST_PPI THEN TRUE
    ELSE IF ~aff_routing_en(dist) THEN TRUE
    ELSE
      LET irq_mask == {irq % 32}
          n == irq \div 32
          group == IF n = 0
                   THEN (IF BitAnd(redist[v].gicr_igroupr0, irq_mask) # NO_BITS
                         THEN 1 ELSE 0)
                   ELSE (IF BitAnd(dist.gicd_igroupr[n], irq_mask) # NO_BITS
                         THEN 1 ELSE 0)
          irouter == dist.gicd_irouter[irq]
          aff == redist[v].aff
      IN  IF irouter.irm
          THEN (IF group = 0 THEN "DPG0" \in redist[v].gicr_ctlr
                ELSE "DPG1NS" \in redist[v].gicr_ctlr)
          ELSE NumAnd(irouter.aff, aff) = aff

(* ------------------------------------------------------------------ *)
(* Pending-interrupt buffer                                            *)
(* ------------------------------------------------------------------ *)

\* The buffer is the sequence of the first irqbuf_num elements of the
\* array cpu_if->irqbuf; Len(irqbuf) is irqbuf_num.  Element i of the C
\* array is element i + 1 of the sequence.

\* the inner for-loop of vgic_v3_irqbuf_remove_nolock
RECURSIVE RemoveCompact(_, _, _, _, _)
RemoveCompact(a, irq, dest, from, num) ==
    IF from >= num THEN [a |-> a, dest |-> dest]
    ELSE IF a[from + 1].irq = irq
         THEN RemoveCompact(a, irq, dest, from + 1, num)
         ELSE RemoveCompact([a EXCEPT ![dest + 1] = a[from + 1]], irq,
                            dest + 1, from + 1, num)

\* the outer while-loop of vgic_v3_irqbuf_remove_nolock
RECURSIVE RemoveScan(_, _, _, _)
RemoveScan(a, irq, dest, num) ==
    IF dest >= num THEN SubSeq(a, 1, num)
    ELSE IF a[dest + 1].irq = irq
         THEN LET r == RemoveCompact(a, irq, dest, dest + 1, num)
              IN  RemoveScan(r.a, irq, r.dest, r.dest)
         ELSE RemoveScan(a, irq, dest + 1, num)

\* faulty variant: removes the first instance only
vgic_v3_irqbuf_remove_first(irq, irqbuf) ==
    LET hits == {k \in DOMAIN irqbuf : irqbuf[k].irq = irq}
    IN  IF hits = {} THEN irqbuf
        ELSE LET m == CHOOSE k \in hits : \A j \in hits : k <= j
             IN  SubSeq(irqbuf, 1, m - 1) \o SubSeq(irqbuf, m + 1, Len(irqbuf))

\* removes ALL instances of interrupt irq from the buffer
vgic_v3_irqbuf_remove_nolock(irq, irqbuf) ==
    RemoveScan(irqbuf, irq, 0, Len(irqbuf))

\* vgic_v3_irqbuf_add_nolock: the cpu_if with one more (unset) element, or
\* "null" when the doubled size would exceed IRQBUF_SIZE_MAX
NullIrq == [irq |-> 0, irqtype |-> 0, group |-> 0, enabled |-> FALSE,
            priority |-> 0]

\* faulty variant: grows without the test against IRQBUF_SIZE_MAX
vgic_v3_irqbuf_add_unbounded(cif) ==
    IF Len(cif.irqbuf) = cif.irqbuf_size
    THEN [vip |-> "ok",
          cif |-> [cif EXCEPT !.irqbuf = Append(@, NullIrq),
                              !.irqbuf_size = cif.irqbuf_size * 2]]
    ELSE [vip |-> "ok", cif |-> [cif EXCEPT !.irqbuf = Append(@, NullIrq)]]

\* faulty variant: the grown buffer is not filled from the old one
vgic_v3_irqbuf_add_nocopy(cif) ==
    IF Len(cif.irqbuf) = cif.irqbuf_size
    THEN LET new_size == cif.irqbuf_size * 2
         IN  IF new_size > IRQBUF_SIZE_MAX
             THEN [vip |-> "null", cif |-> cif]
             ELSE [vip |-> "ok",
                   cif |-> [cif EXCEPT
                      !.irqbuf = [k \in 1 .. Len(@) + 1 |-> NullIrq],
                      !.irqbuf_size = new_size]]
    ELSE [vip |-> "ok", cif |-> [cif EXCEPT !.irqbuf = Append(@, NullIrq)]]

vgic_v3_irqbuf_add_nolock(cif) ==
    IF Len(cif.irqbuf) = cif.irqbuf_size
    THEN LET new_size == cif.irqbuf_size * 2
         IN  IF new_size > IRQBUF_SIZE_MAX
             THEN [vip |-> "null", cif |-> cif]
             ELSE [vip |-> "ok",
                   cif |-> [cif EXCEPT !.irqbuf = Append(@, NullIrq),
                                       !.irqbuf_size = new_size]]
    ELSE [vip |-> "ok", cif |-> [cif EXCEPT !.irqbuf = Append(@, NullIrq)]]

NoWrites == << >>

\* what an operation records about itself in `last`
Done(op, v, irq, irqtype, ignore_state, ret, writes) ==
    [op |-> op, v |-> v, irq |-> irq, irqtype |-> irqtype,
     ignore_state |-> ignore_state, ret |-> ret, pre |-> cpu_if[v],
     writes |-> writes,
     again |-> /\ last.op = op /\ last.v = v /\ last.irq = irq
               /\ last.irqtype = irqtype
               /\ last.ignore_state = ignore_state]

\* vgic_v3_inject_irq(hypctx of v, irq, irqtype)
vgic_v3_inject_irq(v, irq, irqtype) ==
    IF build.invariants /\ ~(irq > GIC_LAST_SGI)
    THEN \* KASSERT(irq > GIC_LAST_SGI)
         /\ panicked' = TRUE
         /\ last' = Done("inject_panic", v, irq, irqtype, FALSE, 0, NoWrites)
         /\ UNCHANGED cpu_if
    ELSE IF irq >= dist.nirqs \/ irqtype >= VGIC_IRQ_INVALID
    THEN /\ last' = Done("inject", v, irq, irqtype, FALSE, 1, NoWrites)
         /\ UNCHANGED <<cpu_if, panicked>>
    ELSE
      LET group == vgic_v3_get_int_group(irq, v)
          enabled == /\ vgic_v3_group_enabled(group, v)
                     /\ vgic_v3_intid_enabled(irq, v)
                     /\ vgic_v3_int_target(irq, v)
          priority == vgic_v3_get_priority(irq, v)
          r == vgic_v3_irqbuf_add_nolock(cpu_if[v])
          vip == [irq |-> irq, irqtype |-> irqtype, group |-> group,
                  enabled |-> enabled, priority |-> priority]
      IN  IF r.vip = "null"
          THEN /\ last' = Done("inject", v, irq, irqtype, FALSE, 1, NoWrites)
               /\ UNCHANGED <<cpu_if, panicked>>
          ELSE /\ cpu_if' = [cpu_if EXCEPT ![v] =
                     [r.cif EXCEPT !.irqbuf[Len(r.cif.irqbuf)] = vip]]
               /\ last' = Done("inject", v, irq, irqtype, FALSE, 0, NoWrites)
               /\ UNCHANGED panicked

\* faulty variant: the request is served without the check of its ID
vgic_v3_remove_irq_unchecked(v, irq, ignore_state) ==
    LET lrs == [i \in LRS |->
                  IF /\ cpu_if[v].ich_lr_el2[i].vintid = irq
                     /\ (lr_not_active(cpu_if[v].ich_lr_el2[i])
                         \/ ignore_state)
                  THEN lr_clear_irq(cpu_if[v].ich_lr_el2[i])
                  ELSE cpu_if[v].ich_lr_el2[i]]
    IN  /\ cpu_if' = [cpu_if EXCEPT ![v] = [@ EXCEPT
               !.ich_lr_el2 = lrs,
               !.irqbuf = vgic_v3_irqbuf_remove_nolock(irq, @)]]
        /\ last' = Done("remove", v, irq, 0, ignore_state, 0, NoWrites)
        /\ UNCHANGED panicked

\* vgic_v3_remove_irq(hypctx of v, irq, ignore_state)
vgic_v3_remove_irq(v, irq, ignore_state) ==
    IF irq >= dist.nirqs
    THEN /\ last' = Done("remove", v, irq, 0, ignore_state, 1, NoWrites)
         /\ UNCHANGED <<cpu_if, panicked>>
    ELSE
      LET lrs == [i \in LRS |->
                    IF /\ cpu_if[v].ich_lr_el2[i].vintid = irq
                       /\ (lr_not_active(cpu_if[v].ich_lr_el2[i])
                           \/ ignore_state)
                    THEN lr_clear_irq(cpu_if[v].ich_lr_el2[i])
                    ELSE cpu_if[v].ich_lr_el2[i]]
      IN  /\ cpu_if' = [cpu_if EXCEPT ![v] = [@ EXCEPT
                 !.ich_lr_el2 = lrs,
                 !.irqbuf = vgic_v3_irqbuf_remove_nolock(irq, @)]]
          /\ last' = Done("remove", v, irq, 0, ignore_state, 0, NoWrites)
          /\ UNCHANGED panicked

(* ------------------------------------------------------------------ *)
(* List-register synchronizer                                          *)
(* ------------------------------------------------------------------ *)

\* vgic_v3_highest_priority_pending: the index (from 0) of the buffered
\* interrupt the overflow path would schedule next, or -1
RECURSIVE HighestScan(_, _, _, _)
HighestScan(irqbuf, v, i, max_idx) ==
    IF i >= Len(irqbuf) THEN max_idx
    ELSE
      LET irq == irqbuf[i + 1].irq
          priority == irqbuf[i + 1].priority
          skip == \/ irq = IRQ_SCHEDULED
                  \/ ~vgic_v3_group_enabled(vgic_v3_get_int_group(irq, v), v)
                  \/ ~vgic_v3_intid_enabled(irq, v)
                  \/ ~vgic_v3_int_target(irq, v)
                  \/ priority >= cpu_if[v].ich_vmcr_el2.vpmr
          take == \/ max_idx = -1
                  \/ priority > irqbuf[max_idx + 1].priority
                  \/ /\ priority = irqbuf[max_idx + 1].priority
                     /\ irqbuf[i + 1].irqtype < irqbuf[max_idx + 1].irqtype
      IN  HighestScan(irqbuf, v, i + 1,
                      IF ~skip /\ take THEN i ELSE max_idx)

\* faulty variant: the first entry that passes the tests is returned
vgic_v3_highest_priority_pending_first(irqbuf, v) ==
    LET ok == {k \in DOMAIN irqbuf :
                 /\ irqbuf[k].irq # IRQ_SCHEDULED
                 /\ vgic_v3_group_enabled(
                        vgic_v3_get_int_group(irqbuf[k].irq, v), v)
                 /\ vgic_v3_intid_enabled(irqbuf[k].irq, v)
                 /\ vgic_v3_int_target(irqbuf[k].irq, v)
                 /\ irqbuf[k].priority < cpu_if[v].ich_vmcr_el2.vpmr}
    IN  IF ok = {} THEN -1
        ELSE (CHOOSE k \in ok : \A j \in ok : k <= j) - 1

vgic_v3_highest_priority_pending(irqbuf, v) == HighestScan(irqbuf, v, 0, -1)

\* vgic_v3_irqbuf_next_enabled(irqbuf, start, end): an index from 0, or -1
\* faulty variant: the search gives up at the first entry it must skip
vgic_v3_irqbuf_next_enabled_stops(irqbuf, start, end, v) ==
    IF start >= end THEN -1
    ELSE
      LET group == vgic_v3_get_int_group(irqbuf[start + 1].irq, v)
          skip == \/ ~irqbuf[start + 1].enabled
                  \/ (group = 1 /\ ~cpu_if[v].ich_vmcr_el2.veng1)
                  \/ (group = 0 /\ ~cpu_if[v].ich_vmcr_el2.veng0)
      IN  IF skip THEN -1 ELSE start

RECURSIVE vgic_v3_irqbuf_next_enabled(_, _, _, _)
vgic_v3_irqbuf_next_enabled(irqbuf, start, end, v) ==
    IF start >= end THEN -1
    ELSE
      LET group == vgic_v3_get_int_group(irqbuf[start + 1].irq, v)
          skip == \/ ~irqbuf[start + 1].enabled
                  \/ (group = 1 /\ ~cpu_if[v].ich_vmcr_el2.veng1)
                  \/ (group = 0 /\ ~cpu_if[v].ich_vmcr_el2.veng0)
      IN  IF skip THEN vgic_v3_irqbuf_next_enabled(irqbuf, start + 1, end, v)
          ELSE start

\* faulty variant: takes the next list register whatever its state
vgic_v3_lr_next_any(ich_lr_el2, start, end) ==
    IF start >= end THEN -1 ELSE start

\* vgic_v3_lr_next_inactive(ich_lr_el2, start, end): an index, or -1
RECURSIVE vgic_v3_lr_next_inactive(_, _, _)
vgic_v3_lr_next_inactive(ich_lr_el2, start, end) ==
    IF start >= end THEN -1
    ELSE IF lr_inactive(ich_lr_el2[start]) THEN start
    ELSE vgic_v3_lr_next_inactive(ich_lr_el2, start + 1, end)

\* a timer interrupt is active or pending in a list register
ClkInjected(ich_lr_el2) ==
    \E i \in LRS : ich_lr_el2[i].vintid = TIMER_INTID
                   /\ ~lr_inactive(ich_lr_el2[i])

\* the for (;;) loop of vgic_v3_irqbuf_to_lr; writes records, for every
\* list register written, its index, the word it held and the entry copied
RECURSIVE ToLrLoop(_, _, _, _, _, _, _)
ToLrLoop(irqbuf, lrs, irqbuf_idx, lr_idx, clk_injected, v, writes) ==
    LET bi == vgic_v3_irqbuf_next_enabled(irqbuf, irqbuf_idx, Len(irqbuf), v)
        li == IF bi = -1 THEN -1
              ELSE vgic_v3_lr_next_inactive(lrs, lr_idx, LrNum)
    IN  IF bi = -1 \/ li = -1
        THEN [irqbuf |-> irqbuf, lrs |-> lrs, writes |-> writes]
        ELSE IF irqbuf[bi + 1].irqtype = VGIC_IRQ_CLK /\ clk_injected
        THEN ToLrLoop(irqbuf, lrs, bi + 1, li, clk_injected, v, writes)
        ELSE ToLrLoop([irqbuf EXCEPT ![bi + 1].irq = IRQ_SCHEDULED],
                      [lrs EXCEPT ![li] = vip_to_lr(irqbuf[bi + 1])],
                      bi + 1, li + 1, clk_injected, v,
                      Append(writes, [lr_idx |-> li, old |-> lrs[li],
                                      vip |-> irqbuf[bi + 1]]))

\* vgic_v3_irqbuf_to_lr
vgic_v3_irqbuf_to_lr(v, cif) ==
    LET r == ToLrLoop(cif.irqbuf, cif.ich_lr_el2, 0, 0,
                      ClkInjected(cif.ich_lr_el2), v, NoWrites)
    IN  [cif |-> [cif EXCEPT
                    !.ich_lr_el2 = r.lrs,
                    !.irqbuf = vgic_v3_irqbuf_remove_nolock(IRQ_SCHEDULED,
                                                            r.irqbuf)],
         writes |-> r.writes]

LrFree(cif) == Cardinality({i \in LRS : lr_inactive(cif.ich_lr_el2[i])})

\* vgic_v3_sync_hwstate(hypctx of v).  With more buffered interrupts than
\* inactive list registers the function calls panic("reshuffled") before it
\* changes anything: the code that follows the call is never executed.
vgic_v3_sync_hwstate(v) ==
    IF Len(cpu_if[v].irqbuf) = 0
    THEN /\ last' = Done("sync", v, 0, 0, FALSE, 0, NoWrites)
         /\ UNCHANGED <<cpu_if, panicked>>
    ELSE IF Len(cpu_if[v].irqbuf) <= LrFree(cpu_if[v])
    THEN LET r == vgic_v3_irqbuf_to_lr(v, cpu_if[v])
         IN  /\ cpu_if' = [cpu_if EXCEPT ![v] = r.cif]
             /\ last' = Done("sync", v, 0, 0, FALSE, 0, r.writes)
             /\ UNCHANGED panicked
    ELSE /\ panicked' = TRUE
         /\ last' = Done("sync_panic", v, 0, 0, FALSE, 0, NoWrites)
         /\ UNCHANGED cpu_if

(* ------------------------------------------------------------------ *)
(* Construction                                                        *)
(* ------------------------------------------------------------------ *)

\* CNTP_CTL_EL0 bits
CNTP_CTL_ENABLE == 1

CNTP_CTL_IMASK == 2

CNTP_CTL_ISTATUS == 4

\* a priority word whose least significant byte is b
PrioWord(b) == <<b, 0, 0, 0>>

\* A configuration the guest has written into the Distributor and the
\* Redistributors: the interrupt count, GICD_CTLR, one group word, the
\* enable words of interrupts 32-63 and 992-1023, and the priority words of
\* interrupts 24-27 and 40-43.
MkConfig(nirqs, ctlr, grp, en1, en31, w6, w10) ==
    [dist |->
       [nirqs |-> nirqs,
        gicd_ctlr |-> ctlr,
        gicd_igroupr |-> [n \in GroupIdx |-> grp],
        gicd_ixenabler |-> [n \in GroupIdx |->
                              IF n = 1 THEN en1
                              ELSE IF n = 31 THEN en31 ELSE ALL_ONES],
        gicd_ipriorityr |-> [n \in PrioIdx |->
                               IF n = 6 THEN w6
                               ELSE IF n = 10 THEN w10 ELSE PrioWord(40)],
        gicd_irouter |-> [irq \in SPIS |-> [irm |-> FALSE, aff |-> 0]]],
     redist |->
       [gicr_ctlr |-> {},
        gicr_igroupr0 |-> grp,
        gicr_ixenabler0 |-> ALL_ONES,
        gicr_ipriorityr |-> [n \in {m \in PrioIdx : m <= 7} |-> w6]]]

\* vgic_v3_vminit: GICD_CTLR_G1 | GICD_CTLR_G1A | GICD_CTLR_ARE_NS
InitCtlr == {"G1", "G1A", "ARE_NS"}

Configs ==
    {MkConfig(64, InitCtlr, ALL_ONES, en1, NO_BITS,
              PrioWord(40), PrioWord(w10)) :
        en1 \in {ALL_ONES, NO_BITS}, w10 \in {40, 80}}

Builds == [ub_shift : {"mod32", "zero"}, invariants : {FALSE}]

\* vgic_v3_cpuinit
InitCpuIf ==
    [ich_lr_el2 |-> [i \in LRS |-> ZeroLr],
     ich_vmcr_el2 |-> [veng0 |-> TRUE, veng1 |-> TRUE, vpmr |-> MIN_PRIO],
     irqbuf |-> << >>,
     irqbuf_size |-> IRQBUF_SIZE_MIN]

\* vtimer_cpuinit: the timer masked and disabled, the callout initialized
InitVtimerCpu ==
    [cntp_ctl_el0 |-> CNTP_CTL_IMASK, cntp_cval_el0 |-> 0,
     callout |-> [pending |-> FALSE, running |-> FALSE, c_time |-> 0]]

\* the threads that call into the vGIC of vCPU 0: the vCPU's own thread,
\* the callout thread of the timer, and a thread emulating devices and
\* the Distributor
THREADS == {"vcpu", "callout", "emul"}

\* a thread outside every operation
Idle == [pc |-> 0, prog |-> << >>, call |-> [name |-> "none"]]

\* mtx_init of dist_mtx and of every lr_mtx: nobody holds them
InitLocks ==
    [dist_mtx |-> "free",
     lr_mtx |-> [v \in VCPUS |-> "free"],
     thr |-> [t \in THREADS |-> Idle]]

NoOp ==
    [op |-> "none", v |-> 0, irq |-> 0, irqtype |-> 0,
     ignore_state |-> FALSE, ret |-> 0, pre |-> InitCpuIf,
     writes |-> NoWrites, again |-> FALSE]

InitFrom(configs, builds, timer_irqs) ==
    /\ \E c \in configs :
          /\ dist = c.dist
          /\ redist = [v \in VCPUS |->
                [aff |-> v,
                 gicr_ctlr |-> c.redist.gicr_ctlr,
                 gicr_igroupr0 |-> c.redist.gicr_igroupr0,
                 gicr_ixenabler0 |-> c.redist.gicr_ixenabler0,
                 gicr_ipriorityr |-> c.redist.gicr_ipriorityr]]
    /\ cpu_if = [v \in VCPUS |-> InitCpuIf]
    /\ \E irq \in timer_irqs :
          vtimer = [phys_ns_irq |-> irq, attached |-> TRUE]
    /\ vtimer_cpu = [v \in VCPUS |-> InitVtimerCpu]
    /\ cntpct = 0
    /\ run = [v \in VCPUS |-> "host"]
    /\ build \in builds
    /\ panicked = FALSE
    /\ locks = InitLocks
    /\ last = NoOp

Init == InitFrom(Configs, Builds, {TIMER_INTID})

(* ------------------------------------------------------------------ *)
(* Operations                                                          *)
(* ------------------------------------------------------------------ *)

\* a caller (device emulation, the timer) injects an interrupt
Inject(v, irq, irqtype) ==
    /\ ~panicked
    /\ vgic_v3_inject_irq(v, irq, irqtype)
    /\ UNCHANGED <<dist, redist, vtimer, vtimer_cpu, cntpct, run, build, locks>>

Remove(v, irq, ignore_state) ==
    /\ ~panicked
    /\ vgic_v3_remove_irq(v, irq, ignore_state)
    /\ UNCHANGED <<dist, redist, vtimer, vtimer_cpu, cntpct, run, build, locks>>

\* arm_vmrun: vgic_v3_sync_hwstate, then vmm_enter_guest
VmRunSync(v) ==
    /\ ~panicked
    /\ run[v] = "host"
    /\ vgic_v3_sync_hwstate(v)
    /\ run' = IF panicked' THEN run ELSE [run EXCEPT ![v] = "guest"]
    /\ UNCHANGED <<dist, redist, vtimer, vtimer_cpu, cntpct, build, locks>>

\* the guest and the hardware move a list register while the guest runs
LrTransitions ==
    {<<"pending", "active">>, <<"pending", "inactive">>,
     <<"active", "inactive">>, <<"active", "pending_active">>,
     <<"pending_active", "active">>}

GuestStep(v, i, to) ==
    /\ ~panicked
    /\ run[v] = "guest"
    /\ <<cpu_if[v].ich_lr_el2[i].state, to>> \in LrTransitions
    /\ cpu_if' = [cpu_if EXCEPT ![v].ich_lr_el2[i].state = to]
    /\ last' = NoOp
    /\ UNCHANGED <<dist, redist, vtimer, vtimer_cpu, cntpct, run, build, locks,
                   panicked>>

\* arm_vmrun: the guest exits and arm_vmrun returns to its caller
GuestExit(v) ==
    /\ ~panicked
    /\ run[v] = "guest"
    /\ run' = [run EXCEPT ![v] = "host"]
    /\ last' = NoOp
    /\ UNCHANGED <<dist, redist, cpu_if, vtimer, vtimer_cpu, cntpct, build, locks,
                   panicked>>

\* what the callers of vCPU 0 inject
InjectInputs ==
    {<<27, VGIC_IRQ_CLK>>, <<40, VGIC_IRQ_VIRTIO>>}

LrStates == {"inactive", "pending", "active", "pending_active"}

Next ==
    \/ \E in \in InjectInputs :
          Len(cpu_if[0].irqbuf) < MaxBuf /\ Inject(0, in[1], in[2])
    \/ \E irq \in {27, 40}, ignore_state \in BOOLEAN :
          Remove(0, irq, ignore_state)
    \/ VmRunSync(0)
    \/ \E i \in LRS, to \in LrStates : GuestStep(0, i, to)
    \/ GuestExit(0)

Spec == Init /\ [][Next]_vars

\* arm_vmrun is called again and again, a running guest exits again and
\* again, and the guest retires the interrupts it was given.
GuestRetires(v) ==
    \E i \in LRS : GuestStep(v, i, "inactive") \/ GuestStep(v, i, "active")

Fairness ==
    /\ WF_vars(VmRunSync(0))
    /\ WF_vars(GuestExit(0))
    /\ SF_vars(GuestRetires(0))

SpecFair == Init /\ [][Next]_vars /\ Fairness

\* The same operations with the largest interrupt count the Distributor
\* can report (GICD_TYPER.ITLinesNumber = 31) and a caller that injects
\* interrupt 1020, disabled or enabled in GICD_ISENABLER<31>.
ConfigsIds ==
    {MkConfig(1024, InitCtlr, ALL_ONES, ALL_ONES, en31,
              PrioWord(40), PrioWord(40)) : en31 \in {ALL_ONES, NO_BITS}}

InitIds == InitFrom(ConfigsIds, Builds, {TIMER_INTID})

InjectInputsIds == {<<40, VGIC_IRQ_VIRTIO>>, <<1020, VGIC_IRQ_MISC>>}

NextIds ==
    \/ \E in \in InjectInputsIds :
          Len(cpu_if[0].irqbuf) < MaxBuf /\ Inject(0, in[1], in[2])
    \/ \E irq \in {40, 1020} : Remove(0, irq, FALSE)
    \/ VmRunSync(0)
    \/ \E i \in LRS, to \in LrStates : GuestStep(0, i, to)
    \/ GuestExit(0)

SpecIds == InitIds /\ [][NextIds]_vars

(* ------------------------------------------------------------------ *)
(* Virtual timer (vtimer.c).  The register-write handlers run on the   *)
(* vCPU's thread while it is in the host; the callout runs on another  *)
(* thread.  A handler is cut where it can wait or takes the lr_mtx     *)
(* again: run[v] tells where the handler is.                           *)
(* ------------------------------------------------------------------ *)
MaxTime == 2

CtlValues ==
    {0, CNTP_CTL_ENABLE, CNTP_CTL_ENABLE + CNTP_CTL_IMASK,
     CNTP_CTL_ENABLE + CNTP_CTL_ISTATUS}

HasBit(w, b) == (w \div b) % 2 = 1

\* faulty variant: the mask bit is not looked at
vtimer_enabled_unmasked(ctl) == HasBit(ctl, CNTP_CTL_ENABLE)

vtimer_enabled(ctl) ==
    ~HasBit(ctl, CNTP_CTL_IMASK) /\ HasBit(ctl, CNTP_CTL_ENABLE)

\* faulty variant: looks at the new value only
timer_toggled_on_new_value(ctl_el0, wval) == vtimer_enabled(wval)

timer_toggled_on(ctl_el0, wval) ==
    ~vtimer_enabled(ctl_el0) /\ vtimer_enabled(wval)

\* faulty variant: looks at the enable bit of the new value only
timer_toggled_off_enable_only(ctl_el0, wval) ==
    vtimer_enabled(ctl_el0) /\ ~HasBit(wval, CNTP_CTL_ENABLE)

timer_toggled_off(ctl_el0, wval) ==
    vtimer_enabled(ctl_el0) /\ ~vtimer_enabled(wval)

\* callout_reset_sbt: the callout is (re)armed for the time c_time
callout_reset_sbt(c, c_time) ==
    [c EXCEPT !.pending = TRUE, !.c_time = c_time]

\* callout_drain returns once the function is not running, and the
\* callout is then not pending either
callout_drain_returns(c) == ~c.running

callout_drain(c) == [c EXCEPT !.pending = FALSE]

\* vtimer_phys_ctl_write up to the call of vtimer_schedule_irq or of
\* vtimer_remove_irq
CtlWrite(v, wval) ==
    /\ ~panicked
    /\ run[v] = "host"
    /\ vtimer_cpu' = [vtimer_cpu EXCEPT ![v].cntp_ctl_el0 = wval]
    /\ run' = [run EXCEPT ![v] =
          IF timer_toggled_on(vtimer_cpu[v].cntp_ctl_el0, wval)
          THEN "ctl_schedule"
          ELSE IF timer_toggled_off(vtimer_cpu[v].cntp_ctl_el0, wval)
          THEN "ctl_drain"
          ELSE "host"]
    /\ last' = NoOp
    /\ UNCHANGED <<dist, redist, cpu_if, vtimer, cntpct, build, locks, panicked>>

\* faulty variant: the callout is armed again without being drained first
CvalWriteNoDrain(v, wval) ==
    /\ ~panicked
    /\ run[v] = "host"
    /\ vtimer_cpu' = [vtimer_cpu EXCEPT ![v].cntp_cval_el0 = wval]
    /\ run' = [run EXCEPT ![v] =
          IF vtimer_enabled(vtimer_cpu[v].cntp_ctl_el0)
          THEN "cval_schedule" ELSE "host"]
    /\ last' = NoOp
    /\ UNCHANGED <<dist, redist, cpu_if, vtimer, cntpct, build, locks, panicked>>

\* vtimer_phys_cval_write up to the call of vtimer_remove_irq
CvalWrite(v, wval) ==
    /\ ~panicked
    /\ run[v] = "host"
    /\ vtimer_cpu' = [vtimer_cpu EXCEPT ![v].cntp_cval_el0 = wval]
    /\ run' = [run EXCEPT ![v] =
          IF vtimer_enabled(vtimer_cpu[v].cntp_ctl_el0)
          THEN "cval_drain" ELSE "host"]
    /\ last' = NoOp
    /\ UNCHANGED <<dist, redist, cpu_if, vtimer, cntpct, build, locks, panicked>>

\* faulty variant: the status follows the delivery of the interrupt
vtimer_phys_ctl_read_delivered(v) ==
    IF \/ \E k \in DOMAIN cpu_if[v].irqbuf :
             cpu_if[v].irqbuf[k].irq = vtimer.phys_ns_irq
       \/ \E i \in LRS :
             /\ cpu_if[v].ich_lr_el2[i].vintid = vtimer.phys_ns_irq
             /\ ~lr_inactive(cpu_if[v].ich_lr_el2[i])
    THEN vtimer_cpu[v].cntp_ctl_el0
         + (IF HasBit(vtimer_cpu[v].cntp_ctl_el0, CNTP_CTL_ISTATUS)
            THEN 0 ELSE CNTP_CTL_ISTATUS)
    ELSE vtimer_cpu[v].cntp_ctl_el0
         - (IF HasBit(vtimer_cpu[v].cntp_ctl_el0, CNTP_CTL_ISTATUS)
            THEN CNTP_CTL_ISTATUS ELSE 0)

\* vtimer_phys_ctl_read: the value stored in *rval
vtimer_phys_ctl_read(v) ==
    IF vtimer_cpu[v].cntp_cval_el0 < cntpct
    THEN \* cntp_ctl_el0 | CNTP_CTL_ISTATUS
         vtimer_cpu[v].cntp_ctl_el0
         + (IF HasBit(vtimer_cpu[v].cntp_ctl_el0, CNTP_CTL_ISTATUS)
            THEN 0 ELSE CNTP_CTL_ISTATUS)
    ELSE \* cntp_ctl_el0 & ~CNTP_CTL_ISTATUS
         vtimer_cpu[v].cntp_ctl_el0
         - (IF HasBit(vtimer_cpu[v].cntp_ctl_el0, CNTP_CTL_ISTATUS)
            THEN CNTP_CTL_ISTATUS ELSE 0)

\* the guest reads CNTP_CTL_EL0
CtlRead(v) ==
    /\ ~panicked
    /\ run[v] = "host"
    /\ last' = [NoOp EXCEPT !.op = "ctl_read", !.v = v,
                            !.ret = vtimer_phys_ctl_read(v)]
    /\ UNCHANGED <<dist, redist, cpu_if, vtimer, vtimer_cpu, cntpct, run,
                   build, locks, panicked>>

\* the values written to CNTP_TVAL_EL0, as (int32_t)wval reads them
TvalValues == {-1, 0, 1, 2}

\* vtimer_phys_tval_write up to the call of vtimer_remove_irq: the
\* deadline is the counter plus the signed 32-bit countdown.  The sum is
\* kept within 0 .. MaxTime, where it does not wrap around.
TvalWrite(v, wval) ==
    /\ ~panicked
    /\ run[v] = "host"
    /\ wval + cntpct \in 0 .. MaxTime
    /\ vtimer_cpu' = [vtimer_cpu EXCEPT ![v].cntp_cval_el0 = wval + cntpct]
    /\ run' = [run EXCEPT ![v] =
          IF vtimer_enabled(vtimer_cpu[v].cntp_ctl_el0)
          THEN "cval_drain" ELSE "host"]
    /\ last' = NoOp
    /\ UNCHANGED <<dist, redist, cpu_if, vtimer, cntpct, build, locks, panicked>>

\* vtimer_remove_irq: callout_drain returns
TimerDrain(v) ==
    /\ ~panicked
    /\ run[v] \in {"ctl_drain", "cval_drain"}
    /\ callout_drain_returns(vtimer_cpu[v].callout)
    /\ vtimer_cpu' = [vtimer_cpu EXCEPT ![v].callout = callout_drain(@)]
    /\ run' = [run EXCEPT ![v] =
          IF run[v] = "ctl_drain" THEN "ctl_remove" ELSE "cval_remove"]
    /\ last' = NoOp
    /\ UNCHANGED <<dist, redist, cpu_if, vtimer, cntpct, build, locks, panicked>>

\* vtimer_remove_irq: vgic_v3_remove_irq(hypctx, irq), called without
\* its third argument, and the return to the handler
TimerRemove(v) ==
    /\ ~panicked
    /\ run[v] \in {"ctl_remove", "cval_remove"}
    /\ \E ignore_state \in BOOLEAN :
          vgic_v3_remove_irq(v, vtimer.phys_ns_irq, ignore_state)
    /\ run' = [run EXCEPT ![v] =
          IF run[v] = "ctl_remove" THEN "host" ELSE "cval_schedule"]
    /\ UNCHANGED <<dist, redist, vtimer, vtimer_cpu, cntpct, build, locks>>

\* vtimer_schedule_irq, and the return of the handler
TimerSchedule(v) ==
    /\ ~panicked
    /\ run[v] \in {"ctl_schedule", "cval_schedule"}
    /\ IF vtimer_cpu[v].cntp_cval_el0 < cntpct
       THEN /\ vgic_v3_inject_irq(v, vtimer.phys_ns_irq, VGIC_IRQ_CLK)
            /\ UNCHANGED vtimer_cpu
       ELSE /\ vtimer_cpu' = [vtimer_cpu EXCEPT ![v].callout =
                  callout_reset_sbt(@, vtimer_cpu[v].cntp_cval_el0)]
            /\ last' = [NoOp EXCEPT !.op = run[v]]
            /\ UNCHANGED <<cpu_if, panicked>>
    /\ run' = [run EXCEPT ![v] = "host"]
    /\ UNCHANGED <<dist, redist, vtimer, cntpct, build, locks>>

\* the callout's time has come: its function starts on the callout
\* thread
CalloutFire(v) ==
    /\ ~panicked
    /\ vtimer_cpu[v].callout.pending
    /\ ~vtimer_cpu[v].callout.running
    /\ cntpct >= vtimer_cpu[v].callout.c_time
    /\ vtimer_cpu' = [vtimer_cpu EXCEPT
          ![v].callout.pending = FALSE, ![v].callout.running = TRUE]
    /\ last' = NoOp
    /\ UNCHANGED <<dist, redist, cpu_if, vtimer, cntpct, run, build, locks,
                   panicked>>

\* vtimer_inject_irq_callout_func
CalloutRun(v) ==
    /\ ~panicked
    /\ vtimer_cpu[v].callout.running
    /\ vgic_v3_inject_irq(v, vtimer.phys_ns_irq, VGIC_IRQ_CLK)
    /\ vtimer_cpu' = [vtimer_cpu EXCEPT ![v].callout.running = FALSE]
    /\ UNCHANGED <<dist, redist, vtimer, cntpct, run, build, locks>>

\* the physical counter advances
Tick ==
    /\ ~panicked
    /\ cntpct < MaxTime
    /\ cntpct' = cntpct + 1
    /\ last' = NoOp
    /\ UNCHANGED <<dist, redist, cpu_if, vtimer, vtimer_cpu, run, build, locks,
                   panicked>>

NextTimer ==
    \/ \E wval \in CtlValues : CtlWrite(0, wval)
    \/ \E wval \in 0 .. MaxTime : CvalWrite(0, wval)
    \/ \E wval \in TvalValues : TvalWrite(0, wval)
    \/ CtlRead(0)
    \/ TimerDrain(0)
    \/ TimerRemove(0)
    \/ TimerSchedule(0)
    \/ CalloutFire(0)
    \/ CalloutRun(0)
    \/ Tick
    \/ VmRunSync(0)
    \/ \E i \in LRS, to \in LrStates : GuestStep(0, i, to)
    \/ GuestExit(0)

SpecTimer == Init /\ [][NextTimer]_vars

\* One caller fills the buffer of vCPU 0 up to its hard maximum and
\* keeps injecting.
NextCap == Inject(0, vtimer.phys_ns_irq, VGIC_IRQ_CLK)

SpecCap == Init /\ [][NextCap]_vars

(* ------------------------------------------------------------------ *)
(* Priority, group and enable updates.  The Distributor emulation calls *)
(* these after it has written the register; they bring the buffered     *)
(* entries and the list registers up to date.                           *)
(* ------------------------------------------------------------------ *)

\* what an update records about itself in `last`: as Done, with the value
\* written and the cpu_if of every vCPU before the call
DoneUpdate(op, v, irq, val) ==
    [op |-> op, v |-> v, irq |-> irq, irqtype |-> 0,
     ignore_state |-> FALSE, ret |-> 0, pre |-> cpu_if[v],
     writes |-> NoWrites, again |-> FALSE,
     val |-> val, pre_all |-> cpu_if]

\* faulty variant: the list registers are left with the old priority
vgic_v3_irq_set_priority_buffer_only(irq, priority, cif) ==
    [cif EXCEPT
       !.irqbuf = [k \in DOMAIN cif.irqbuf |->
                     IF cif.irqbuf[k].irq = irq
                     THEN [cif.irqbuf[k] EXCEPT !.priority = priority]
                     ELSE cif.irqbuf[k]]]

\* vgic_v3_irq_set_priority_vcpu: the new cpu_if
vgic_v3_irq_set_priority_vcpu(irq, priority, cif) ==
    [cif EXCEPT
       !.irqbuf = [k \in DOMAIN cif.irqbuf |->
                     IF cif.irqbuf[k].irq = irq
                     THEN [cif.irqbuf[k] EXCEPT !.priority = priority]
                     ELSE cif.irqbuf[k]],
       !.ich_lr_el2 = [i \in LRS |->
                     IF lr_pending(cif.ich_lr_el2[i])
                     THEN [cif.ich_lr_el2[i] EXCEPT !.priority = priority]
                     ELSE cif.ich_lr_el2[i]]]

\* the vCPUs whose cpu_if an update of irq reaches: the caller's for a
\* private interrupt, for (i = 0; i < 1; i++) for a shared one
UpdatedVcpus(irq, vcpuid) ==
    IF irq <= GIC_LAST_PPI THEN {vcpuid} ELSE {i \in VCPUS : i < 1}

\* vgic_v3_irq_set_priority(irq, priority, hyp, vcpuid)
vgic_v3_irq_set_priority(irq, priority, vcpuid) ==
    /\ cpu_if' = [v \in VCPUS |->
          IF v \in UpdatedVcpus(irq, vcpuid)
          THEN vgic_v3_irq_set_priority_vcpu(irq, priority, cpu_if[v])
          ELSE cpu_if[v]]
    /\ last' = DoneUpdate("set_priority", vcpuid, irq, priority)
    /\ UNCHANGED panicked

\* vgic_v3_irq_set_group_vcpu: the new cpu_if
vgic_v3_irq_set_group_vcpu(irq, group, cif) ==
    [cif EXCEPT
       !.irqbuf = [k \in DOMAIN cif.irqbuf |->
                     IF cif.irqbuf[k].irq = irq
                     THEN [cif.irqbuf[k] EXCEPT !.group = group]
                     ELSE cif.irqbuf[k]],
       !.ich_lr_el2 = [i \in LRS |->
                     IF lr_pending(cif.ich_lr_el2[i])
                     THEN [cif.ich_lr_el2[i] EXCEPT !.group = group]
                     ELSE cif.ich_lr_el2[i]]]

\* vgic_v3_irq_set_group(irq, group, hyp, vcpuid)
vgic_v3_irq_set_group(irq, group, vcpuid) ==
    /\ cpu_if' = [v \in VCPUS |->
          IF v \in UpdatedVcpus(irq, vcpuid)
          THEN vgic_v3_irq_set_group_vcpu(irq, group, cpu_if[v])
          ELSE cpu_if[v]]
    /\ last' = DoneUpdate("set_group", vcpuid, irq, group)
    /\ UNCHANGED panicked

\* faulty variant: the entries of every group are flipped
ToggleGroupVcpuAnyGroup(group, enabled, v) ==
    [cpu_if[v] EXCEPT
       !.irqbuf = [k \in DOMAIN cpu_if[v].irqbuf |->
           LET vip == cpu_if[v].irqbuf[k]
           IN  IF ~enabled THEN [vip EXCEPT !.enabled = FALSE]
               ELSE IF vgic_v3_intid_enabled(vip.irq, v)
               THEN [vip EXCEPT !.enabled = TRUE]
               ELSE vip]]

\* vgic_v3_irq_toggle_group_enabled: the body of the loop over the
\* vCPUs, the new cpu_if of vCPU v
ToggleGroupVcpu(group, enabled, v) ==
    [cpu_if[v] EXCEPT
       !.irqbuf = [k \in DOMAIN cpu_if[v].irqbuf |->
           LET vip == cpu_if[v].irqbuf[k]
           IN  IF vip.group # group THEN vip
               ELSE IF ~enabled THEN [vip EXCEPT !.enabled = FALSE]
               ELSE IF vgic_v3_intid_enabled(vip.irq, v)
               THEN [vip EXCEPT !.enabled = TRUE]
               ELSE vip]]

\* vgic_v3_irq_toggle_group_enabled(group, enabled, hyp): every vCPU
vgic_v3_irq_toggle_group_enabled(group, enabled) ==
    /\ cpu_if' = [v \in VCPUS |-> ToggleGroupVcpu(group, enabled, v)]
    /\ last' = DoneUpdate("toggle_group", 0, group, enabled)
    /\ UNCHANGED panicked

\* faulty variant: disabling clears the list registers in every state
vgic_v3_irq_toggle_enabled_any_state(irq, enabled, cif) ==
    IF enabled
    THEN [cif EXCEPT
            !.irqbuf = [k \in DOMAIN cif.irqbuf |->
                          IF cif.irqbuf[k].irq = irq
                          THEN [cif.irqbuf[k] EXCEPT !.enabled = TRUE]
                          ELSE cif.irqbuf[k]]]
    ELSE [cif EXCEPT
            !.ich_lr_el2 = [i \in LRS |->
                          IF cif.ich_lr_el2[i].vintid = irq
                          THEN lr_clear_irq(cif.ich_lr_el2[i])
                          ELSE cif.ich_lr_el2[i]],
            !.irqbuf = vgic_v3_irqbuf_remove_nolock(irq, cif.irqbuf)]

\* faulty variant: enabling reaches the entries of every interrupt ID
vgic_v3_irq_toggle_enabled_every_id(irq, enabled, cif) ==
    IF enabled
    THEN [cif EXCEPT
            !.irqbuf = [k \in DOMAIN cif.irqbuf |->
                          [cif.irqbuf[k] EXCEPT !.enabled = TRUE]]]
    ELSE [cif EXCEPT
            !.ich_lr_el2 = [i \in LRS |->
                          IF /\ lr_pending(cif.ich_lr_el2[i])
                             /\ cif.ich_lr_el2[i].vintid = irq
                          THEN lr_clear_irq(cif.ich_lr_el2[i])
                          ELSE cif.ich_lr_el2[i]],
            !.irqbuf = vgic_v3_irqbuf_remove_nolock(irq, cif.irqbuf)]

\* vgic_v3_irq_toggle_enabled_vcpu: the new cpu_if
vgic_v3_irq_toggle_enabled_vcpu(irq, enabled, cif) ==
    IF enabled
    THEN [cif EXCEPT
            !.irqbuf = [k \in DOMAIN cif.irqbuf |->
                          IF cif.irqbuf[k].irq = irq
                          THEN [cif.irqbuf[k] EXCEPT !.enabled = TRUE]
                          ELSE cif.irqbuf[k]]]
    ELSE [cif EXCEPT
            !.ich_lr_el2 = [i \in LRS |->
                          IF /\ lr_pending(cif.ich_lr_el2[i])
                             /\ cif.ich_lr_el2[i].vintid = irq
                          THEN lr_clear_irq(cif.ich_lr_el2[i])
                          ELSE cif.ich_lr_el2[i]],
            !.irqbuf = vgic_v3_irqbuf_remove_nolock(irq, cif.irqbuf)]

\* vgic_v3_irq_toggle_enabled(irq, enabled, hyp, vcpuid)
vgic_v3_irq_toggle_enabled(irq, enabled, vcpuid) ==
    /\ cpu_if' = [v \in VCPUS |->
          IF v \in UpdatedVcpus(irq, vcpuid)
          THEN vgic_v3_irq_toggle_enabled_vcpu(irq, enabled, cpu_if[v])
          ELSE cpu_if[v]]
    /\ last' = DoneUpdate("toggle_enabled", vcpuid, irq, enabled)
    /\ UNCHANGED panicked

SetPriority(v, irq, priority) ==
    /\ ~panicked
    /\ vgic_v3_irq_set_priority(irq, priority, v)
    /\ UNCHANGED <<dist, redist, vtimer, vtimer_cpu, cntpct, run, build, locks>>

SetGroup(v, irq, group) ==
    /\ ~panicked
    /\ vgic_v3_irq_set_group(irq, group, v)
    /\ UNCHANGED <<dist, redist, vtimer, vtimer_cpu, cntpct, run, build, locks>>

ToggleGroupEnabled(group, enabled) ==
    /\ ~panicked
    /\ vgic_v3_irq_toggle_group_enabled(group, enabled)
    /\ UNCHANGED <<dist, redist, vtimer, vtimer_cpu, cntpct, run, build, locks>>

ToggleEnabled(v, irq, enabled) ==
    /\ ~panicked
    /\ vgic_v3_irq_toggle_enabled(irq, enabled, v)
    /\ UNCHANGED <<dist, redist, vtimer, vtimer_cpu, cntpct, run, build, locks>>

(* ------------------------------------------------------------------ *)
(* Every mutation entry point of vCPU 0.                                *)
(* ------------------------------------------------------------------ *)

\* one programming of the Distributor: 64 interrupts, all in group 1
\* and enabled, priorities 40 and 80
ConfigsPlain ==
    {MkConfig(64, InitCtlr, ALL_ONES, ALL_ONES, NO_BITS,
              PrioWord(40), PrioWord(80))}

BuildsPlain == [ub_shift : {"mod32"}, invariants : {FALSE}]

\* the buffer length up to which the callers of the operations inject
MaxOpsBuf == 1

\* Every operation on the shared interrupt 40.  set_group stores the
\* group the interrupt already has: the function runs in full and the
\* states of the list registers, which these runs are about, do not
\* depend on the value stored.
NextOps ==
    \/ Len(cpu_if[0].irqbuf) < MaxOpsBuf /\ Inject(0, 40, VGIC_IRQ_VIRTIO)
    \/ \E ignore_state \in BOOLEAN : Remove(0, 40, ignore_state)
    \/ SetPriority(0, 40, 8)
    \/ SetGroup(0, 40, 1)
    \/ \E enabled \in BOOLEAN : ToggleGroupEnabled(1, enabled)
    \/ \E enabled \in BOOLEAN : ToggleEnabled(0, 40, enabled)
    \/ VmRunSync(0)
    \/ \E i \in LRS, to \in LrStates : GuestStep(0, i, to)
    \/ GuestExit(0)

SpecOps == InitFrom(ConfigsPlain, BuildsPlain, {TIMER_INTID}) /\ [][NextOps]_vars

(* ------------------------------------------------------------------ *)
(* Priority and group updates of the shared interrupt 40 next to its    *)
(* injection and synchronization.                                       *)
(* ------------------------------------------------------------------ *)

\* the buffer length up to which interrupts are injected between updates
MaxUpdBuf == 2

NextUpdate ==
    \/ Len(cpu_if[0].irqbuf) < MaxUpdBuf /\ Inject(0, 40, VGIC_IRQ_VIRTIO)
    \/ SetPriority(0, 40, 8)
    \/ SetGroup(0, 40, 0)
    \/ VmRunSync(0)
    \/ \E i \in LRS, to \in LrStates : GuestStep(0, i, to)
    \/ GuestExit(0)

SpecUpdate ==
    InitFrom(ConfigsPlain, BuildsPlain, {TIMER_INTID}) /\ [][NextUpdate]_vars

(* ------------------------------------------------------------------ *)
(* Updates of private and shared interrupts with two vCPUs.             *)
(* ------------------------------------------------------------------ *)

\* the buffer length up to which each vCPU is injected
MaxVcpuBuf == 1

NextVcpus ==
    \/ \E v \in VCPUS, in \in InjectInputs :
          Len(cpu_if[v].irqbuf) < MaxVcpuBuf /\ Inject(v, in[1], in[2])
    \/ \E v \in VCPUS, irq \in {27, 40} : SetPriority(v, irq, 8)
    \/ \E v \in VCPUS : SetGroup(v, 40, 0)
    \/ \E v \in VCPUS : ToggleEnabled(v, 40, TRUE)
    \/ VmRunSync(1)
    \/ GuestExit(1)

SpecVcpus ==
    InitFrom(ConfigsPlain, BuildsPlain, {TIMER_INTID}) /\ [][NextVcpus]_vars

(* ------------------------------------------------------------------ *)
(* A buffer filled up to its largest capacity with the timer and a      *)
(* device interrupt in turn, the first entry taken into a list register.*)
(* ------------------------------------------------------------------ *)

GrowInject ==
    IF Len(cpu_if[0].irqbuf) % 2 = 0
    THEN Inject(0, 27, VGIC_IRQ_CLK)
    ELSE Inject(0, 40, VGIC_IRQ_VIRTIO)

GrowSync == Len(cpu_if[0].irqbuf) = 1 /\ VmRunSync(0)

NextGrow == GrowInject \/ GrowSync

SpecGrow ==
    InitFrom(ConfigsPlain, BuildsPlain, {TIMER_INTID}) /\ [][NextGrow]_vars

(* ------------------------------------------------------------------ *)
(* Synchronization with a guest that switches its interrupt groups on   *)
(* and off, and a timer attached with interrupt 27 or 30.               *)
(* ------------------------------------------------------------------ *)

\* the guest writes ICC_IGRPEN0_EL1 or ICC_IGRPEN1_EL1; the world switch
\* saves the enable bits in ich_vmcr_el2
GuestVmcr(v, veng0, veng1) ==
    /\ ~panicked
    /\ run[v] = "guest"
    /\ <<veng0, veng1>> # <<cpu_if[v].ich_vmcr_el2.veng0,
                            cpu_if[v].ich_vmcr_el2.veng1>>
    /\ cpu_if' = [cpu_if EXCEPT ![v].ich_vmcr_el2 =
                     [@ EXCEPT !.veng0 = veng0, !.veng1 = veng1]]
    /\ last' = NoOp
    /\ UNCHANGED <<dist, redist, vtimer, vtimer_cpu, cntpct, run, build,
                   locks, panicked>>

\* every interrupt in group 1 and enabled; interrupts 32-63 disabled;
\* every interrupt in group 0
ConfigsSync ==
    {MkConfig(64, InitCtlr, c[1], c[2], NO_BITS, PrioWord(40), PrioWord(80)) :
        c \in {<<ALL_ONES, ALL_ONES>>, <<ALL_ONES, NO_BITS>>,
               <<NO_BITS, ALL_ONES>>}}

\* the interrupts vtimer_attach_to_vm is called with
TimerIrqs == {27, 30}

NextSync ==
    \/ Len(cpu_if[0].irqbuf) < MaxBuf
          /\ Inject(0, vtimer.phys_ns_irq, VGIC_IRQ_CLK)
    \/ Len(cpu_if[0].irqbuf) < MaxBuf /\ Inject(0, 40, VGIC_IRQ_VIRTIO)
    \/ VmRunSync(0)
    \/ \E i \in LRS, to \in LrStates : GuestStep(0, i, to)
    \/ \E veng0, veng1 \in BOOLEAN : GuestVmcr(0, veng0, veng1)
    \/ GuestExit(0)

SpecSync == InitFrom(ConfigsSync, BuildsPlain, TimerIrqs) /\ [][NextSync]_vars

(* ------------------------------------------------------------------ *)
(* Well-formed and malformed requests to inject and remove, on kernels  *)
(* built with and without INVARIANTS.                                   *)
(* ------------------------------------------------------------------ *)

\* requests to vgic_v3_inject_irq: the timer, an ID beyond nirqs, a type
\* beyond the enumeration, and an SGI
InjectInputsReq ==
    {<<27, VGIC_IRQ_CLK>>, <<64, VGIC_IRQ_MISC>>,
     <<40, VGIC_IRQ_INVALID>>, <<3, VGIC_IRQ_MISC>>}

BuildsReq == [ub_shift : {"mod32"}, invariants : BOOLEAN]

\* the buffer length up to which requests are injected
MaxReqBuf == 1

NextReq ==
    \/ \E in \in InjectInputsReq :
          Len(cpu_if[0].irqbuf) < MaxReqBuf /\ Inject(0, in[1], in[2])
    \/ \E irq \in {27, 64}, ignore_state \in BOOLEAN :
          Remove(0, irq, ignore_state)
    \/ SetPriority(0, 3, 20)
    \/ VmRunSync(0)
    \/ \E i \in LRS, to \in LrStates : GuestStep(0, i, to)
    \/ GuestExit(0)

SpecReq == InitFrom(ConfigsPlain, BuildsReq, {TIMER_INTID}) /\ [][NextReq]_vars

(* ------------------------------------------------------------------ *)
(* Writes of the guest to the Distributor that switch a group or an     *)
(* interrupt ID on and off.  The register emulation stores the new      *)
(* value and then calls the update function of the vGIC.                *)
(* ------------------------------------------------------------------ *)

\* the GICD_CTLR bit vgic_v3_group_enabled tests for a group
CtlrBit(group) == IF group = 1 THEN "G1A" ELSE "G1"

\* a write of GICD_CTLR that changes the enable bit of one group
DistCtlrWrite(group, enabled) ==
    /\ ~panicked
    /\ enabled # (CtlrBit(group) \in dist.gicd_ctlr)
    /\ dist' = [dist EXCEPT !.gicd_ctlr =
                   IF enabled THEN @ \cup {CtlrBit(group)}
                   ELSE @ \ {CtlrBit(group)}]
    /\ vgic_v3_irq_toggle_group_enabled(group, enabled)
    /\ UNCHANGED <<redist, vtimer, vtimer_cpu, cntpct, run, build, locks>>

\* a write of GICD_ISENABLER<n> or GICD_ICENABLER<n> that changes the
\* enable bit of the shared interrupt irq
DistEnableWrite(v, irq, enabled) ==
    /\ ~panicked
    /\ irq > GIC_LAST_PPI
    /\ enabled # ((irq % 32) \in dist.gicd_ixenabler[irq \div 32])
    /\ dist' = [dist EXCEPT !.gicd_ixenabler[irq \div 32] =
                   IF enabled THEN @ \cup {irq % 32} ELSE @ \ {irq % 32}]
    /\ vgic_v3_irq_toggle_enabled(irq, enabled, v)
    /\ UNCHANGED <<redist, vtimer, vtimer_cpu, cntpct, run, build, locks>>

\* the buffer length up to which interrupt 40 is injected
MaxDistBuf == 2

NextDist ==
    \/ Len(cpu_if[0].irqbuf) < MaxDistBuf /\ Inject(0, 40, VGIC_IRQ_VIRTIO)
    \/ \E enabled \in BOOLEAN : DistCtlrWrite(1, enabled)
    \/ \E enabled \in BOOLEAN : DistEnableWrite(0, 40, enabled)
    \/ VmRunSync(0)
    \/ \E i \in LRS, to \in LrStates : GuestStep(0, i, to)
    \/ GuestExit(0)

SpecDist ==
    InitFrom(ConfigsPlain, BuildsPlain, {TIMER_INTID}) /\ [][NextDist]_vars

(* ------------------------------------------------------------------ *)
(* Group toggles with two vCPUs and interrupts of both groups.          *)
(* ------------------------------------------------------------------ *)

\* interrupt 40 (bit 8 of its group word) in group 1, every other
\* interrupt in group 0
ConfigsToggle ==
    {MkConfig(64, InitCtlr, {8}, ALL_ONES, NO_BITS, PrioWord(40),
              PrioWord(80))}

\* the buffer length up to which each vCPU is injected
MaxTogBuf == 2

NextToggle ==
    \/ \E v \in VCPUS, in \in InjectInputs :
          Len(cpu_if[v].irqbuf) < MaxTogBuf /\ Inject(v, in[1], in[2])
    \/ \E group \in {0, 1}, enabled \in BOOLEAN :
          DistCtlrWrite(group, enabled)
    \/ \E enabled \in BOOLEAN : DistEnableWrite(0, 40, enabled)

SpecToggle ==
    InitFrom(ConfigsToggle, BuildsPlain, {TIMER_INTID}) /\ [][NextToggle]_vars

(* ------------------------------------------------------------------ *)
(* Injection under every routing of the shared interrupt 40.            *)
(* ------------------------------------------------------------------ *)

\* the affinity values the guest writes into GICD_IROUTER<40>
RouteAffs == {0, 1, 3}

\* GICR_CTLR of the Redistributors: the bits that take a vCPU out of
\* the 1-of-N selection for a group
RouteCtlrs == {{}, {"DPG0"}, {"DPG1NS"}}

\* affinity routing on and off, interrupt 40 routed 1-of-N or to an
\* affinity, in group 1 or in group 0
ConfigsRoute ==
    {[c EXCEPT !.dist.gicd_ctlr = ctlr,
               !.dist.gicd_irouter[40] = [irm |-> irm, aff |-> aff],
               !.redist.gicr_ctlr = rctlr] :
        c \in {MkConfig(64, InitCtlr, grp, ALL_ONES, NO_BITS, PrioWord(40),
                        PrioWord(80)) : grp \in {ALL_ONES, NO_BITS}},
        ctlr \in {InitCtlr, InitCtlr \ {"ARE_NS"}},
        irm \in BOOLEAN, aff \in RouteAffs, rctlr \in RouteCtlrs}

\* the buffer length up to which each vCPU is injected
MaxRouteBuf == 1

NextRoute ==
    \/ \E v \in VCPUS, in \in InjectInputs :
          Len(cpu_if[v].irqbuf) < MaxRouteBuf /\ Inject(v, in[1], in[2])
    \/ VmRunSync(0)
    \/ GuestExit(0)

SpecRoute ==
    InitFrom(ConfigsRoute, BuildsPlain, {TIMER_INTID}) /\ [][NextRoute]_vars

(* ------------------------------------------------------------------ *)
(* The world-switch loop arm_vmrun, statement by statement, and the     *)
(* classification of the guest's exits.                                 *)
(* ------------------------------------------------------------------ *)

\* arm64.c:60
UNHANDLED == 0

\* the exception types vmm_enter_guest returns; "other" is a value
\* outside the enumeration
ExcpTypes ==
    {"EL1_SYNC", "EL1_IRQ", "EL1_FIQ", "EL1_ERROR",
     "EL2_SYNC", "EL2_IRQ", "EL2_FIQ", "EL2_ERROR", "other"}

\* the exception classes of ESR_EL2.EC; "other" is every class the
\* switch does not name
ExcpClasses == {"UNKNOWN", "HVC", "MSR", "DATA_ABORT_L", "other"}

\* what the guest returns with: the exception type, and of the syndrome
\* the class, ISS_DATA_ISV and whether the fault status is a translation
\* fault
Exceptions ==
    [excp_type : ExcpTypes, esr_ec : ExcpClasses,
     isv : BOOLEAN, dfsc_tf : BOOLEAN]

\* faulty variant: a data abort is emulated whatever its syndrome
handle_el1_sync_excp_any_abort(exc) ==
    [exitcode |->
        IF exc.esr_ec = "MSR" THEN "REG_EMUL"
        ELSE IF exc.esr_ec = "DATA_ABORT_L" THEN "INST_EMUL"
        ELSE "HYP",
     handled |-> UNHANDLED]

\* handle_el1_sync_excp: the exit code it sets and the value it returns
handle_el1_sync_excp(exc) ==
    [exitcode |->
        IF exc.esr_ec = "UNKNOWN" THEN "HYP"
        ELSE IF exc.esr_ec = "HVC" THEN "HYP"
        ELSE IF exc.esr_ec = "MSR" THEN "REG_EMUL"
        ELSE IF exc.esr_ec = "DATA_ABORT_L"
        THEN (IF ~exc.isv THEN "HYP"
              ELSE IF ~exc.dfsc_tf THEN "HYP"
              ELSE "INST_EMUL")
        ELSE "HYP",
     handled |-> UNHANDLED]

\* arm64_handle_world_switch
arm64_handle_world_switch(exc) ==
    IF exc.excp_type = "EL1_SYNC" THEN handle_el1_sync_excp(exc)
    ELSE [exitcode |-> "BOGUS", handled |-> UNHANDLED]

\* faulty variant: the pass is run again instead of entering the guest
arm_vmrun_next_resync(pc, handled) ==
    IF pc = "vmrun" THEN "synced"
    ELSE IF pc = "synced" THEN "vmrun"
    ELSE IF handled = UNHANDLED THEN "host"
    ELSE "vmrun"

\* arm_vmrun: where the function is after the statement at pc.  "vmrun"
\* is the top of the for (;;) loop, "synced" the point between
\* vgic_v3_sync_hwstate and vmm_enter_guest, "guest" the guest running,
\* "host" the caller of arm_vmrun.
arm_vmrun_next(pc, handled) ==
    IF pc = "vmrun" THEN "synced"
    ELSE IF pc = "synced" THEN "guest"
    ELSE IF handled = UNHANDLED THEN "host"
    ELSE "vmrun"

\* what an exit records about itself in `last`
DoneExit(v, exc, r) ==
    [op |-> "vmexit", v |-> v, irq |-> 0, irqtype |-> 0,
     ignore_state |-> FALSE, ret |-> r.handled, pre |-> cpu_if[v],
     writes |-> NoWrites, again |-> FALSE,
     exc |-> exc, exitcode |-> r.exitcode]

\* the vCPU thread calls arm_vmrun
VmRunCall(v) ==
    /\ ~panicked
    /\ run[v] = "host"
    /\ run' = [run EXCEPT ![v] = "vmrun"]
    /\ last' = NoOp
    /\ UNCHANGED <<dist, redist, cpu_if, vtimer, vtimer_cpu, cntpct, build,
                   locks, panicked>>

\* arm_vmrun: vgic_v3_sync_hwstate(hypctx)
VmRunSyncStep(v) ==
    /\ ~panicked
    /\ run[v] = "vmrun"
    /\ vgic_v3_sync_hwstate(v)
    /\ run' = IF panicked' THEN run
              ELSE [run EXCEPT ![v] = arm_vmrun_next(run[v], UNHANDLED)]
    /\ UNCHANGED <<dist, redist, vtimer, vtimer_cpu, cntpct, build, locks>>

\* arm_vmrun: vmm_call_hyp(vmm_enter_guest)
VmRunEnter(v) ==
    /\ ~panicked
    /\ run[v] = "synced"
    /\ run' = [run EXCEPT ![v] = arm_vmrun_next(run[v], UNHANDLED)]
    /\ last' = [NoOp EXCEPT !.op = "enter", !.v = v]
    /\ UNCHANGED <<dist, redist, cpu_if, vtimer, vtimer_cpu, cntpct, build,
                   locks, panicked>>

\* arm_vmrun: the guest returns with exception exc, the exit is
\* classified and the loop ends or goes round
VmRunExit(v, exc) ==
    /\ ~panicked
    /\ run[v] = "guest"
    /\ LET r == arm64_handle_world_switch(exc)
       IN  /\ run' = [run EXCEPT ![v] = arm_vmrun_next(run[v], r.handled)]
           /\ last' = DoneExit(v, exc, r)
    /\ UNCHANGED <<dist, redist, cpu_if, vtimer, vtimer_cpu, cntpct, build,
                   locks, panicked>>

\* the buffer length up to which a device injects while the loop runs
MaxRunBuf == 1

NextRun ==
    \/ Len(cpu_if[0].irqbuf) < MaxRunBuf /\ Inject(0, 40, VGIC_IRQ_VIRTIO)
    \/ VmRunCall(0)
    \/ VmRunSyncStep(0)
    \/ VmRunEnter(0)
    \/ \E i \in LRS, to \in LrStates : GuestStep(0, i, to)
    \/ \E exc \in Exceptions : VmRunExit(0, exc)

SpecRun ==
    InitFrom(ConfigsPlain, BuildsPlain, {TIMER_INTID}) /\ [][NextRun]_vars

(* ------------------------------------------------------------------ *)
(* Priority and group updates of interrupt 40 while the list registers  *)
(* hold the timer interrupt.                                            *)
(* ------------------------------------------------------------------ *)

\* the buffer length up to which interrupts are injected between updates
MaxFrameBuf == 1

NextFrame ==
    \/ Len(cpu_if[0].irqbuf) < MaxFrameBuf /\ Inject(0, 27, VGIC_IRQ_CLK)
    \/ SetPriority(0, 40, 8)
    \/ SetGroup(0, 40, 0)
    \/ VmRunSync(0)
    \/ \E i \in LRS, to \in LrStates : GuestStep(0, i, to)
    \/ GuestExit(0)

SpecFrame ==
    InitFrom(ConfigsPlain, BuildsPlain, {TIMER_INTID}) /\ [][NextFrame]_vars

(* ------------------------------------------------------------------ *)
(* The enable bits of interrupts 40 and 27 switched while both          *)
(* interrupts are buffered and resident in list registers.              *)
(* ------------------------------------------------------------------ *)

\* a write of GICR_ISENABLER0 or GICR_ICENABLER0 of vCPU v that changes
\* the enable bit of the private interrupt irq
RedistEnableWrite(v, irq, enabled) ==
    /\ ~panicked
    /\ irq <= GIC_LAST_PPI
    /\ enabled # (irq \in redist[v].gicr_ixenabler0)
    /\ redist' = [redist EXCEPT ![v].gicr_ixenabler0 =
                     IF enabled THEN @ \cup {irq} ELSE @ \ {irq}]
    /\ vgic_v3_irq_toggle_enabled(irq, enabled, v)
    /\ UNCHANGED <<dist, vtimer, vtimer_cpu, cntpct, run, build, locks>>

\* the buffer length up to which interrupts are injected between toggles
MaxEnBuf == 2

NextEnable ==
    \/ \E in \in InjectInputs :
          Len(cpu_if[0].irqbuf) < MaxEnBuf /\ Inject(0, in[1], in[2])
    \/ \E enabled \in BOOLEAN : DistEnableWrite(0, 40, enabled)
    \/ \E enabled \in BOOLEAN : RedistEnableWrite(0, TIMER_INTID, enabled)
    \/ VmRunSync(0)
    \/ \E i \in LRS, to \in LrStates : GuestStep(0, i, to)
    \/ GuestExit(0)

SpecEnable ==
    InitFrom(ConfigsPlain, BuildsPlain, {TIMER_INTID}) /\ [][NextEnable]_vars

(* ------------------------------------------------------------------ *)
(* The arbitration of the overflow path of vgic_v3_sync_hwstate: the    *)
(* statements that fill the inactive list registers from the buffer in  *)
(* priority order.  They follow the call of panic("reshuffled"), so the *)
(* pass never reaches them (see vgic_v3_sync_hwstate above); here they  *)
(* are applied to the state such a pass starts in.                      *)
(* ------------------------------------------------------------------ *)

\* for (i = 0; i < ich_lr_num; i++): every inactive list register takes
\* the entry vgic_v3_highest_priority_pending returns, which is then
\* marked IRQ_SCHEDULED; picks records every call of the function: the
\* buffer it was given and the index it returned (-1 for NULL)
RECURSIVE OverflowFill(_, _, _, _, _)
OverflowFill(irqbuf, lrs, i, v, picks) ==
    IF i >= LrNum THEN [irqbuf |-> irqbuf, lrs |-> lrs, picks |-> picks]
    ELSE IF ~lr_inactive(lrs[i])
    THEN OverflowFill(irqbuf, lrs, i + 1, v, picks)
    ELSE
      LET idx == vgic_v3_highest_priority_pending(irqbuf, v)
          pick == [idx |-> idx, irqbuf |-> irqbuf, lr_idx |-> i]
      IN  IF idx = -1
          THEN [irqbuf |-> irqbuf, lrs |-> lrs, picks |-> Append(picks, pick)]
          ELSE OverflowFill([irqbuf EXCEPT ![idx + 1].irq = IRQ_SCHEDULED],
                            [lrs EXCEPT ![i] = vip_to_lr(irqbuf[idx + 1])],
                            i + 1, v, Append(picks, pick))

\* the fill loop and the purge of the scheduled entries
vgic_v3_sync_overflow(v, cif) ==
    LET r == OverflowFill(cif.irqbuf, cif.ich_lr_el2, 0, v, NoWrites)
    IN  [cif |-> [cif EXCEPT
                    !.ich_lr_el2 = r.lrs,
                    !.irqbuf = vgic_v3_irqbuf_remove_nolock(IRQ_SCHEDULED,
                                                            r.irqbuf)],
         picks |-> r.picks]

\* The arbitration applied to vCPU v with more buffered entries than
\* inactive list registers and no pending list register (nothing for the
\* pass to take back into the buffer).  The vCPU's state is left as it
\* is: `last` gets the calls and what the loop would have stored.
Arbitrate(v) ==
    /\ ~panicked
    /\ run[v] = "host"
    /\ Len(cpu_if[v].irqbuf) > LrFree(cpu_if[v])
    /\ \A i \in LRS : ~lr_pending(cpu_if[v].ich_lr_el2[i])
    /\ LET r == vgic_v3_sync_overflow(v, cpu_if[v])
       IN  last' = [NoOp EXCEPT !.op = "arbitrate", !.v = v,
                                !.pre = cpu_if[v], !.writes = r.picks,
                                !.ret = Len(r.cif.irqbuf)]
    /\ UNCHANGED <<dist, redist, cpu_if, vtimer, vtimer_cpu, cntpct, run,
                   build, panicked, locks>>

\* interrupt 40 routed to vCPU 0 by affinity, or routed 1-of-N with
\* vCPU 0 out of the selection for its group (GICR_CTLR.DPG1NS set)
ConfigsArb ==
    ConfigsPlain \cup
    {[c EXCEPT !.dist.gicd_irouter[40] = [irm |-> TRUE, aff |-> 0],
               !.redist.gicr_ctlr = {"DPG1NS"}] : c \in ConfigsPlain}

\* what the callers inject: the timer, and interrupt 40 from two kinds of
\* device
InjectInputsArb ==
    {<<27, VGIC_IRQ_CLK>>, <<40, VGIC_IRQ_VIRTIO>>, <<40, VGIC_IRQ_MISC>>}

\* the priorities the guest gives interrupt 27: the one interrupt 40
\* resolves to, and the lowest one
ArbPriorities == {20, MIN_PRIO}

\* the buffer length up to which the callers inject
MaxArbBuf == 3

NextArb ==
    \/ \E in \in InjectInputsArb :
          Len(cpu_if[0].irqbuf) < MaxArbBuf /\ Inject(0, in[1], in[2])
    \/ \E priority \in ArbPriorities : SetPriority(0, 27, priority)
    \/ \E enabled \in BOOLEAN : DistEnableWrite(0, 40, enabled)
    \/ \E enabled \in BOOLEAN : DistCtlrWrite(1, enabled)
    \/ Arbitrate(0)

SpecArb == InitFrom(ConfigsArb, Builds, {TIMER_INTID}) /\ [][NextArb]_vars

(* ------------------------------------------------------------------ *)
(* The operations at the grain of their spin mutexes.  An operation is  *)
(* the sequence of its lock, unlock and body steps, in source order;    *)
(* threads take the steps one at a time and a lock step waits while     *)
(* another thread holds the mutex.                                      *)
(* ------------------------------------------------------------------ *)

\* the buffer length up to which the threads inject
MaxLockBuf == 1

St(k, v) == [k |-> k, v |-> v]

\* the section of an operation under the lr_mtx of vCPU v
LrSection(v) == <<St("lock_lr", v), St("body", v), St("unlock_lr", v)>>

\* faulty variant: the lr_mtx taken before the dist_mtx
InjectProgramLrFirst(v, irq, irqtype) ==
    IF irq >= dist.nirqs \/ irqtype >= VGIC_IRQ_INVALID
    THEN <<St("fail", v)>>
    ELSE <<St("lock_lr", v), St("lock_dist", v), St("body", v),
           St("unlock_dist", v), St("unlock_lr", v)>>

\* vgic_v3_inject_irq: a malformed request returns before any lock
InjectProgram(v, irq, irqtype) ==
    IF irq >= dist.nirqs \/ irqtype >= VGIC_IRQ_INVALID
    THEN <<St("fail", v)>>
    ELSE <<St("lock_dist", v)>> \o LrSection(v) \o <<St("unlock_dist", v)>>

\* vgic_v3_remove_irq
RemoveProgram(v, irq) ==
    IF irq >= dist.nirqs THEN <<St("fail", v)>> ELSE LrSection(v)

\* vgic_v3_irq_set_priority, vgic_v3_irq_set_group and
\* vgic_v3_irq_toggle_enabled: the _vcpu function of the one vCPU reached
UpdateProgram(irq, vcpuid) ==
    LrSection(CHOOSE v \in UpdatedVcpus(irq, vcpuid) : TRUE)

\* vgic_v3_irq_toggle_group_enabled: for (i = 0; i < VM_MAXCPU; i++)
ToggleGroupProgram == LrSection(0) \o LrSection(1)

\* faulty variant: the pass runs without the lr_mtx
SyncProgramUnlocked(v) == <<St("body", v)>>

\* vgic_v3_sync_hwstate
SyncProgram(v) == LrSection(v)

\* the Distributor emulation may call with the dist_mtx held
CallerHoldsDist(prog) ==
    <<St("lock_dist", 0)>> \o prog \o <<St("unlock_dist", 0)>>

Call(name, v, irq, arg) == [name |-> name, v |-> v, irq |-> irq, arg |-> arg]

\* what each thread may call, and the steps of the call
CallsOf(t) ==
    IF t = "vcpu"
    THEN {<<Call("sync", 0, 0, 0), SyncProgram(0)>>,
          <<Call("remove", 0, TIMER_INTID, FALSE),
            RemoveProgram(0, TIMER_INTID)>>}
    ELSE IF t = "callout"
    THEN {<<Call("inject", 0, TIMER_INTID, VGIC_IRQ_CLK),
            InjectProgram(0, TIMER_INTID, VGIC_IRQ_CLK)>>}
    ELSE {<<Call("set_priority", 0, TIMER_INTID, 20),
            UpdateProgram(TIMER_INTID, 0)>>,
          <<Call("set_group", 0, TIMER_INTID, 0),
            CallerHoldsDist(UpdateProgram(TIMER_INTID, 0))>>,
          <<Call("toggle_enabled", 0, TIMER_INTID, FALSE),
            UpdateProgram(TIMER_INTID, 0)>>,
          <<Call("toggle_group", 0, 1, FALSE),
            CallerHoldsDist(ToggleGroupProgram)>>}

Thr(t) == locks.thr[t]

\* the step thread t is at
AtStep(t) == Thr(t).prog[Thr(t).pc]

At(t, k) == Thr(t).pc > 0 /\ AtStep(t).k = k

\* thread t has taken its step: the next one, or the return
Stepped(t) ==
    IF Thr(t).pc = Len(Thr(t).prog) THEN Idle
    ELSE [Thr(t) EXCEPT !.pc = @ + 1]

\* a thread enters an operation
ThreadCall(t, c) ==
    /\ ~panicked
    /\ Thr(t).pc = 0
    /\ c[1].name = "inject" => Len(cpu_if[c[1].v].irqbuf) < MaxLockBuf
    /\ locks' = [locks EXCEPT !.thr[t] =
                    [pc |-> 1, prog |-> c[2], call |-> c[1]]]
    /\ UNCHANGED <<dist, redist, cpu_if, vtimer, vtimer_cpu, cntpct, run,
                   build, panicked, last>>

\* mtx_lock_spin: the thread spins until the mutex is free
ThreadLock(t) ==
    /\ ~panicked
    /\ \/ /\ At(t, "lock_dist")
          /\ locks.dist_mtx = "free"
          /\ locks' = [locks EXCEPT !.dist_mtx = t, !.thr[t] = Stepped(t)]
       \/ /\ At(t, "lock_lr")
          /\ locks.lr_mtx[AtStep(t).v] = "free"
          /\ locks' = [locks EXCEPT !.lr_mtx[AtStep(t).v] = t,
                                    !.thr[t] = Stepped(t)]
    /\ UNCHANGED <<dist, redist, cpu_if, vtimer, vtimer_cpu, cntpct, run,
                   build, panicked, last>>

\* mtx_unlock_spin
ThreadUnlock(t) ==
    /\ ~panicked
    /\ \/ /\ At(t, "unlock_dist")
          /\ locks' = [locks EXCEPT !.dist_mtx = "free",
                                    !.thr[t] = Stepped(t)]
       \/ /\ At(t, "unlock_lr")
          /\ locks' = [locks EXCEPT !.lr_mtx[AtStep(t).v] = "free",
                                    !.thr[t] = Stepped(t)]
    /\ UNCHANGED <<dist, redist, cpu_if, vtimer, vtimer_cpu, cntpct, run,
                   build, panicked, last>>

\* the statements of the operation between its lock and unlock, or its
\* early return
ThreadBody(t) ==
    /\ ~panicked
    /\ At(t, "body") \/ At(t, "fail")
    /\ LET c == Thr(t).call
       IN  CASE c.name = "inject" -> vgic_v3_inject_irq(c.v, c.irq, c.arg)
             [] c.name = "remove" -> vgic_v3_remove_irq(c.v, c.irq, c.arg)
             [] c.name = "sync" -> vgic_v3_sync_hwstate(c.v)
             [] c.name = "set_priority" ->
                    vgic_v3_irq_set_priority(c.irq, c.arg, c.v)
             [] c.name = "set_group" ->
                    vgic_v3_irq_set_group(c.irq, c.arg, c.v)
             [] c.name = "toggle_enabled" ->
                    vgic_v3_irq_toggle_enabled(c.irq, c.arg, c.v)
             [] c.name = "toggle_group" ->
                    /\ cpu_if' = [cpu_if EXCEPT ![AtStep(t).v] =
                          ToggleGroupVcpu(c.irq, c.arg, AtStep(t).v)]
                    /\ last' = DoneUpdate("toggle_group", AtStep(t).v,
                                          c.irq, c.arg)
                    /\ UNCHANGED panicked
    /\ locks' = [locks EXCEPT !.thr[t] = Stepped(t)]
    /\ UNCHANGED <<dist, redist, vtimer, vtimer_cpu, cntpct, run, build>>

NextLock ==
    \/ \E t \in THREADS : \E c \in CallsOf(t) : ThreadCall(t, c)
    \/ \E t \in THREADS : ThreadLock(t)
    \/ \E t \in THREADS : ThreadUnlock(t)
    \/ \E t \in THREADS : ThreadBody(t)

SpecLock == InitFrom(ConfigsPlain, BuildsPlain, {TIMER_INTID}) /\ [][NextLock]_vars

(* ------------------------------------------------------------------ *)
(* An inject that has to grow the buffer.  The callout thread fills the *)
(* buffer of vCPU 0 to its first capacity and injects once more; the    *)
(* vCPU's thread starts a synchronization pass on the full buffer.      *)
(* malloc(M_NOWAIT) returns NULL while the kernel has no free memory:   *)
(* build.m_nowait tells whether it has.                                 *)
(* ------------------------------------------------------------------ *)

BuildsAlloc ==
    [ub_shift : {"mod32"}, invariants : {FALSE},
     m_nowait : {"succeeds", "fails"}]

\* vgic_v3_inject_irq, with the allocation loop of
\* vgic_v3_irqbuf_add_nolock as a step of its own under both mutexes
InjectProgramAlloc(v) ==
    <<St("lock_dist", v), St("lock_lr", v), St("malloc", v), St("body", v),
      St("unlock_lr", v), St("unlock_dist", v)>>

\* the callout thread injects the timer interrupt until the buffer has
\* grown once
AllocInjectCall ==
    /\ ~panicked
    /\ Thr("callout").pc = 0
    /\ Len(cpu_if[0].irqbuf) <= IRQBUF_SIZE_MIN
    /\ locks' = [locks EXCEPT !.thr["callout"] =
                    [pc |-> 1, prog |-> InjectProgramAlloc(0),
                     call |-> Call("inject", 0, TIMER_INTID, VGIC_IRQ_CLK)]]
    /\ UNCHANGED <<dist, redist, cpu_if, vtimer, vtimer_cpu, cntpct, run,
                   build, panicked, last>>

\* arm_vmrun on the vCPU's thread calls vgic_v3_sync_hwstate
AllocSyncCall ==
    /\ ~panicked
    /\ Thr("vcpu").pc = 0
    /\ Len(cpu_if[0].irqbuf) = IRQBUF_SIZE_MIN
    /\ locks' = [locks EXCEPT !.thr["vcpu"] =
                    [pc |-> 1, prog |-> SyncProgram(0),
                     call |-> Call("sync", 0, 0, 0)]]
    /\ UNCHANGED <<dist, redist, cpu_if, vtimer, vtimer_cpu, cntpct, run,
                   build, panicked, last>>

\* while (new_irqbuf == NULL) new_irqbuf = malloc(..., M_NOWAIT | M_ZERO):
\* the loop is left when no allocation is needed or an attempt succeeds
malloc_loop_ends(cif) ==
    \/ Len(cif.irqbuf) # cif.irqbuf_size
    \/ cif.irqbuf_size * 2 > IRQBUF_SIZE_MAX
    \/ build.m_nowait = "succeeds"

ThreadMalloc(t) ==
    /\ ~panicked
    /\ At(t, "malloc")
    /\ malloc_loop_ends(cpu_if[AtStep(t).v])
    /\ locks' = [locks EXCEPT !.thr[t] = Stepped(t)]
    /\ UNCHANGED <<dist, redist, cpu_if, vtimer, vtimer_cpu, cntpct, run,
                   build, panicked, last>>

\* what thread t does next inside its operation
ThreadStep(t) ==
    ThreadLock(t) \/ ThreadUnlock(t) \/ ThreadMalloc(t) \/ ThreadBody(t)

NextAlloc ==
    \/ AllocInjectCall
    \/ AllocSyncCall
    \/ \E t \in {"callout", "vcpu"} : ThreadLock(t)
    \/ \E t \in {"callout", "vcpu"} : ThreadUnlock(t)
    \/ ThreadMalloc("callout")
    \/ \E t \in {"callout", "vcpu"} : ThreadBody(t)

\* a thread inside an operation keeps its CPU: spin mutexes disable
\* preemption and the callout and the vCPU run on different CPUs
FairnessAlloc ==
    /\ WF_vars(ThreadStep("callout"))
    /\ WF_vars(ThreadStep("vcpu"))

SpecAlloc ==
    /\ InitFrom(ConfigsPlain, BuildsAlloc, {TIMER_INTID})
    /\ [][NextAlloc]_vars
    /\ FairnessAlloc

(* ------------------------------------------------------------------ *)
(* Properties                                                          *)
(* ------------------------------------------------------------------ *)

\* the vCPU state the last operation started in and the one it left
Pre == last.pre

Post == cpu_if[last.v]

SyncPass == last.op \in {"sync", "sync_panic"}

\* how many elements of the sequence q equal e
Count(q, e) == Cardinality({k \in DOMAIN q : q[k] = e})

Range(q) == {q[k] : k \in DOMAIN q}

\* the entries a pass copied into list registers
Written == [k \in DOMAIN last.writes |-> last.writes[k].vip]

\* an entry the fast path skips: disabled, its group disabled in the VMCR,
\* or a timer-clock entry while a timer interrupt is resident
Skipped(e, cif) ==
    \/ ~e.enabled
    \/ (vgic_v3_get_int_group(e.irq, last.v) = 1 /\ ~cif.ich_vmcr_el2.veng1)
    \/ (vgic_v3_get_int_group(e.irq, last.v) = 0 /\ ~cif.ich_vmcr_el2.veng0)
    \/ (e.irqtype = VGIC_IRQ_CLK /\ ClkInjected(cif.ich_lr_el2))

IsDoubling(n) == \E k \in 0 .. 5 : n = IRQBUF_SIZE_MIN * Pow2(k)

\* C1: the number of buffered entries never exceeds the hard maximum of
\* 1024 nor the current capacity, the capacity starts at 32 and only
\* doubles, and an inject issued when the buffer holds 1024 entries
\* returns an error and leaves the buffer length and contents unchanged.
C1_Capacity ==
    /\ \A v \in VCPUS :
          /\ Len(cpu_if[v].irqbuf) <= IRQBUF_SIZE_MAX
          /\ Len(cpu_if[v].irqbuf) <= cpu_if[v].irqbuf_size
          /\ IsDoubling(cpu_if[v].irqbuf_size)
    /\ last.op # "none" =>
          Post.irqbuf_size \in {Pre.irqbuf_size, 2 * Pre.irqbuf_size}
    /\ (last.op = "inject" /\ Len(Pre.irqbuf) = IRQBUF_SIZE_MAX) =>
          /\ last.ret # 0
          /\ Post = Pre

\* an inject into a buffer that holds 1024 entries
C1_Witness ==
    /\ last.op = "inject"
    /\ Len(Pre.irqbuf) = IRQBUF_SIZE_MAX
    /\ Pre.irqbuf_size = IRQBUF_SIZE_MAX
    /\ last.ret # 0

\* an enabled entry for irq waits in the buffer of vCPU 0
BufferedEnabled(irq) ==
    \E k \in DOMAIN cpu_if[0].irqbuf :
        cpu_if[0].irqbuf[k].irq = irq /\ cpu_if[0].irqbuf[k].enabled

\* a pass has just written irq into a list register, or irq was removed
PlacedOrRemoved(irq) ==
    \/ /\ last.op = "sync" /\ last.v = 0
       /\ \E k \in DOMAIN last.writes : last.writes[k].vip.irq = irq
    \/ /\ last.op = "remove" /\ last.v = 0 /\ last.irq = irq
       /\ last.ret = 0

\* C2: no loss: an interrupt buffered with an enabled snapshot is
\* eventually written into a list register by a pass of
\* vgic_v3_sync_hwstate, or removed, when arm_vmrun keeps being called
\* and the guest keeps returning its list registers, whatever else is
\* injected meanwhile.
C2_NoLoss ==
    \A irq \in {27, 40} : BufferedEnabled(irq) ~> PlacedOrRemoved(irq)

\* C3: a synchronization pass never discards an interrupt: the entries
\* buffered before the pass are, with multiplicity, the entries buffered
\* after it plus the entries it wrote into list registers, and every
\* skipped entry is still buffered.
C3_SyncKeepsEntries ==
    SyncPass =>
      /\ \A e \in Range(Pre.irqbuf) \cup Range(Post.irqbuf) \cup Range(Written) :
            Count(Pre.irqbuf, e) = Count(Post.irqbuf, e) + Count(Written, e)
      /\ \A e \in Range(Pre.irqbuf) :
            Skipped(e, Pre) => Count(Post.irqbuf, e) = Count(Pre.irqbuf, e)

\* C4: the synchronizer writes an interrupt only into a list register
\* that is inactive at the moment of the write: every register a pass
\* wrote or changed was inactive before.
C4_WritesOnlyInactive ==
    SyncPass =>
      /\ \A k \in DOMAIN last.writes : lr_inactive(last.writes[k].old)
      /\ \A i \in LRS :
            Post.ich_lr_el2[i] # Pre.ich_lr_el2[i]
               => lr_inactive(Pre.ich_lr_el2[i])

\* a pass that wrote a register while another register was occupied
C4_Witness ==
    /\ last.op = "sync"
    /\ Len(last.writes) >= 1
    /\ \E i \in LRS : ~lr_inactive(Pre.ich_lr_el2[i])
    /\ \E i \in LRS : Post.ich_lr_el2[i] # Pre.ich_lr_el2[i]

Overflow(cif) == Len(cif.irqbuf) > LrFree(cif)

\* C5: scheduling overflow is not fatal: a pass called with more buffered
\* entries than inactive list registers returns without halting the system.
C5_OverflowNotFatal ==
    (SyncPass /\ Overflow(Pre)) => ~panicked

\* an entry the arbitration of the overflow path may schedule
Eligible(e, v) ==
    /\ e.irq # IRQ_SCHEDULED
    /\ vgic_v3_group_enabled(vgic_v3_get_int_group(e.irq, v), v)
    /\ vgic_v3_intid_enabled(e.irq, v)
    /\ vgic_v3_int_target(e.irq, v)
    /\ e.priority < cpu_if[v].ich_vmcr_el2.vpmr

\* a pass that started with two eligible entries and one inactive register
TwoForOne ==
    /\ SyncPass
    /\ Len(Pre.irqbuf) = 2
    /\ LrFree(Pre) = 1
    /\ \A k \in 1 .. 2 : Pre.irqbuf[k].enabled /\ Eligible(Pre.irqbuf[k], last.v)

\* the pass placed entry a into the inactive register and left b buffered
PlacedAndLeft(a, b) ==
    /\ Post.irqbuf = <<b>>
    /\ \E i \in LRS : /\ lr_inactive(Pre.ich_lr_el2[i])
                      /\ Post.ich_lr_el2[i] = vip_to_lr(a)

\* C6: with two eligible entries of distinct priorities and one inactive
\* register, the pass places the entry with the lower priority value and
\* leaves the other buffered.
C6_PriorityOrdering ==
    (TwoForOne /\ Pre.irqbuf[1].priority # Pre.irqbuf[2].priority) =>
      IF Pre.irqbuf[1].priority < Pre.irqbuf[2].priority
      THEN PlacedAndLeft(Pre.irqbuf[1], Pre.irqbuf[2])
      ELSE PlacedAndLeft(Pre.irqbuf[2], Pre.irqbuf[1])

\* C7: with two eligible entries of equal priority and different delivery
\* types and one inactive register, the pass places the entry with the
\* lower delivery-type ordinal and leaves the other buffered.
C7_TieBreak ==
    (/\ TwoForOne
     /\ Pre.irqbuf[1].priority = Pre.irqbuf[2].priority
     /\ Pre.irqbuf[1].irqtype # Pre.irqbuf[2].irqtype) =>
      IF Pre.irqbuf[1].irqtype < Pre.irqbuf[2].irqtype
      THEN PlacedAndLeft(Pre.irqbuf[1], Pre.irqbuf[2])
      ELSE PlacedAndLeft(Pre.irqbuf[2], Pre.irqbuf[1])

Removed == last.op = "remove" /\ last.ret = 0

\* C8: after vgic_v3_remove_irq(irq, ignore_state) with a valid irq no
\* buffered entry has ID irq and every list register holding irq is
\* inactive, except that one holding irq active or pending-active keeps
\* its state when ignore_state is false; entries and list registers with
\* other IDs are unchanged.
C8_RemovePost ==
    Removed =>
      /\ \A k \in DOMAIN Post.irqbuf : Post.irqbuf[k].irq # last.irq
      /\ Post.irqbuf = SelectSeq(Pre.irqbuf, LAMBDA e : e.irq # last.irq)
      /\ \A i \in LRS :
            IF Pre.ich_lr_el2[i].vintid # last.irq
            THEN Post.ich_lr_el2[i] = Pre.ich_lr_el2[i]
            ELSE IF /\ Pre.ich_lr_el2[i].state \in {"active", "pending_active"}
                    /\ ~last.ignore_state
            THEN Post.ich_lr_el2[i] = Pre.ich_lr_el2[i]
            ELSE lr_inactive(Post.ich_lr_el2[i])
      /\ Post.irqbuf_size = Pre.irqbuf_size
      /\ Post.ich_vmcr_el2 = Pre.ich_vmcr_el2

\* a removal that found the ID buffered twice beside another ID and in
\* an active register it had to keep, next to an occupied register that
\* holds another ID
C8_Witness ==
    /\ Removed
    /\ ~last.ignore_state
    /\ Count([k \in DOMAIN Pre.irqbuf |-> Pre.irqbuf[k].irq], last.irq) >= 2
    /\ \E k \in DOMAIN Pre.irqbuf : Pre.irqbuf[k].irq # last.irq
    /\ \E i \in LRS : /\ Pre.ich_lr_el2[i].vintid = last.irq
                      /\ lr_active(Pre.ich_lr_el2[i])
    /\ \E i \in LRS : /\ Pre.ich_lr_el2[i].vintid # last.irq
                      /\ ~lr_inactive(Pre.ich_lr_el2[i])

\* C9: vgic_v3_remove_irq(irq, true) called twice in a row: the second
\* call leaves the buffer and every list register as the first call left
\* them, and the calls return success (for an irq below the interrupt
\* count).
C9_RemoveIdempotent ==
    (last.op = "remove" /\ last.ignore_state /\ last.again) =>
      /\ Post = Pre
      /\ (last.irq < dist.nirqs => last.ret = 0)

\* a second removal in a row, of an ID that a list register still names
C9_Witness ==
    /\ last.op = "remove" /\ last.ignore_state /\ last.again
    /\ last.ret = 0
    /\ \E i \in LRS : Post.ich_lr_el2[i].vintid = last.irq
    /\ Len(Post.irqbuf) >= 1

TimerEntries(irqbuf) ==
    {k \in DOMAIN irqbuf : /\ irqbuf[k].irq = vtimer.phys_ns_irq
                           /\ irqbuf[k].irqtype = VGIC_IRQ_CLK}

InHandler(v) == run[v] \notin {"host", "guest"}

\* C10: once the control-register write that disables an armed timer
\* has returned, the callout is neither pending nor running, so its
\* function injects nothing afterwards, and the vCPU's buffer holds no
\* timer entry; this holds however the callout interleaves with the
\* write.
C10_TimerCancellation ==
    \A v \in VCPUS :
        (~InHandler(v) /\ ~vtimer_enabled(vtimer_cpu[v].cntp_ctl_el0)) =>
            /\ ~vtimer_cpu[v].callout.pending
            /\ ~vtimer_cpu[v].callout.running
            /\ TimerEntries(cpu_if[v].irqbuf) = {}

\* a disabling write has just returned, and the callout function had
\* injected the timer interrupt before the write drained it
C10_Witness ==
    /\ last.op = "remove"
    /\ last.irq = vtimer.phys_ns_irq
    /\ run[last.v] = "host"
    /\ ~vtimer_enabled(vtimer_cpu[last.v].cntp_ctl_el0)
    /\ vtimer_cpu[last.v].cntp_cval_el0 >= cntpct
    /\ TimerEntries(Pre.irqbuf) # {}

\* the threads inside the buffer and list-register section of vCPU v
InSection(v) ==
    {t \in THREADS : /\ At(t, "body") \/ At(t, "unlock_lr")
                     /\ AtStep(t).v = v}

\* C11: inject, remove, set_priority, set_group, the group-enable and
\* ID-enable toggles and the synchronization pass touch the buffer and
\* the list registers of a vCPU only while they hold its lr_mtx, so at
\* most one thread, the holder, is inside such a section at a time.
C11_MutualExclusion ==
    \A v \in VCPUS :
        /\ Cardinality(InSection(v)) <= 1
        /\ \A t \in InSection(v) : locks.lr_mtx[v] = t

\* the timer callout is inside its inject while the vCPU's thread
\* waits to synchronize and the emulation thread waits too
C11_Witness ==
    /\ At("callout", "body")
    /\ At("vcpu", "lock_lr") /\ Thr("vcpu").call.name = "sync"
    /\ At("emul", "lock_lr") \/ At("emul", "lock_dist")

\* the thread, if any, that thread t waits for
WaitsFor(t) ==
    IF At(t, "lock_dist") /\ locks.dist_mtx # "free" THEN locks.dist_mtx
    ELSE IF At(t, "lock_lr") /\ locks.lr_mtx[AtStep(t).v] # "free"
    THEN locks.lr_mtx[AtStep(t).v]
    ELSE "none"

\* following WaitsFor from t leads back to t
InCycle(t) ==
    \/ WaitsFor(t) = t
    \/ WaitsFor(t) \in THREADS /\ WaitsFor(WaitsFor(t)) = t
    \/ /\ WaitsFor(t) \in THREADS
       /\ WaitsFor(WaitsFor(t)) \in THREADS
       /\ WaitsFor(WaitsFor(WaitsFor(t))) = t

HoldsLr(t) == \E v \in VCPUS : locks.lr_mtx[v] = t

\* the operation of thread t takes the dist_mtx itself (inject does)
TakesBoth(t) == Thr(t).pc > 0 /\ Thr(t).call.name = "inject"

\* C12: no thread takes the dist_mtx while it holds an lr_mtx; an
\* operation that takes both holds the dist_mtx for as long as it holds
\* the lr_mtx (taken before, released after); and no set of threads
\* waits for each other's mutexes.
C12_LockOrdering ==
    \A t \in THREADS :
        /\ At(t, "lock_dist") => ~HoldsLr(t)
        /\ (TakesBoth(t) /\ HoldsLr(t)) => locks.dist_mtx = t
        /\ ~InCycle(t)

\* an inject holds both mutexes while another thread, holding nothing
\* or the dist_mtx, waits
C12_Witness ==
    /\ \E t \in THREADS : TakesBoth(t) /\ HoldsLr(t) /\ locks.dist_mtx = t
    /\ \E u \in THREADS : WaitsFor(u) \in THREADS

\* C13: every mutation entry point returns to its caller for every
\* input and every reachable state: no call halts the system because
\* of the range of an interrupt ID or the occupancy of the buffer and
\* the list registers.
C13_AlwaysReturns == ~panicked

\* the last call was a malformed request to inject or remove
Malformed ==
    \/ /\ last.op = "inject"
       /\ last.irq >= dist.nirqs \/ last.irqtype >= VGIC_IRQ_INVALID
    \/ last.op = "remove" /\ last.irq >= dist.nirqs

Updated(x) == IF last.op = "set_priority" THEN x.priority ELSE x.group

\* C15: after vgic_v3_irq_set_priority(irq, p), respectively
\* vgic_v3_irq_set_group(irq, g), on a vCPU, every buffered entry with
\* ID irq has priority p (group g), every list register holding irq
\* pending has priority p (group g), and the list registers that were
\* active or pending-active are as they were.
C15_UpdatePost ==
    last.op \in {"set_priority", "set_group"} =>
        /\ \A k \in DOMAIN Post.irqbuf :
              Post.irqbuf[k].irq = last.irq =>
                  Updated(Post.irqbuf[k]) = last.val
        /\ \A i \in LRS :
              (Post.ich_lr_el2[i].state = "pending"
                  /\ Post.ich_lr_el2[i].vintid = last.irq) =>
                  Updated(Post.ich_lr_el2[i]) = last.val
        /\ \A i \in LRS :
              Pre.ich_lr_el2[i].state \in {"active", "pending_active"} =>
                  Post.ich_lr_el2[i] = Pre.ich_lr_el2[i]

\* a priority update found the interrupt buffered and pending in a list
\* register, both with another priority, next to an active list register
C15_Witness ==
    /\ last.op = "set_priority"
    /\ \E k \in DOMAIN Pre.irqbuf :
          Pre.irqbuf[k].irq = last.irq /\ Pre.irqbuf[k].priority # last.val
    /\ \E i \in LRS :
          /\ Pre.ich_lr_el2[i].state = "pending"
          /\ Pre.ich_lr_el2[i].vintid = last.irq
          /\ Pre.ich_lr_el2[i].priority # last.val
    /\ \E i \in LRS : Pre.ich_lr_el2[i].state = "active"

\* the cpu_if cif holds the interrupt irq: buffered or in a list register
\* that is not inactive
Holds(cif, irq) ==
    \/ \E k \in DOMAIN cif.irqbuf : cif.irqbuf[k].irq = irq
    \/ \E i \in LRS : /\ cif.ich_lr_el2[i].vintid = irq
                       /\ cif.ich_lr_el2[i].state # "inactive"

\* the buffer of cif shows the last update of last.irq
ShowsUpdate(cif) ==
    \A k \in DOMAIN cif.irqbuf :
        cif.irqbuf[k].irq = last.irq =>
            CASE last.op = "set_priority" -> cif.irqbuf[k].priority = last.val
              [] last.op = "set_group" -> cif.irqbuf[k].group = last.val
              [] last.op = "toggle_enabled" ->
                     last.val /\ cif.irqbuf[k].enabled

\* C16: set_priority, set_group and the ID-enable toggle of a private
\* interrupt change the buffer and list registers of the owning vCPU
\* only; of a shared interrupt they update every vCPU that holds the
\* interrupt, not only vCPU 0.
C16_UpdateScope ==
    last.op \in {"set_priority", "set_group", "toggle_enabled"} =>
        IF last.irq <= GIC_LAST_PPI
        THEN \A v \in VCPUS \ {last.v} : cpu_if[v] = last.pre_all[v]
        ELSE \A v \in VCPUS :
                Holds(last.pre_all[v], last.irq) => ShowsUpdate(cpu_if[v])

\* the entry vgic_v3_inject_irq builds for the last request
InjectedEntry ==
    LET group == vgic_v3_get_int_group(last.irq, last.v)
    IN  [irq |-> last.irq, irqtype |-> last.irqtype, group |-> group,
         enabled |-> /\ vgic_v3_group_enabled(group, last.v)
                     /\ vgic_v3_intid_enabled(last.irq, last.v)
                     /\ vgic_v3_int_target(last.irq, last.v),
         priority |-> vgic_v3_get_priority(last.irq, last.v)]

\* C17: a successful vgic_v3_inject_irq(irq, type) makes the buffer one
\* entry longer, the new entry comes after all the others and has the
\* ID, the type and the group, enabled flag and priority resolved at
\* the call; the entries buffered before and every list register are
\* unchanged, also when the buffer is grown.
C17_InjectFrame ==
    (last.op = "inject" /\ last.ret = 0) =>
        /\ Len(Post.irqbuf) = Len(Pre.irqbuf) + 1
        /\ Post.irqbuf[Len(Post.irqbuf)] = InjectedEntry
        /\ \A k \in DOMAIN Pre.irqbuf : Post.irqbuf[k] = Pre.irqbuf[k]
        /\ Post.ich_lr_el2 = Pre.ich_lr_el2

\* an inject found the buffer full, grew it, and a list register was
\* holding an interrupt
C17_Witness ==
    /\ last.op = "inject" /\ last.ret = 0
    /\ Len(Pre.irqbuf) = Pre.irqbuf_size
    /\ Post.irqbuf_size = 2 * Pre.irqbuf_size
    /\ \E i \in LRS : Pre.ich_lr_el2[i].state = "pending"

\* a pass that took the fast path
FastPass ==
    /\ last.op = "sync"
    /\ Len(Pre.irqbuf) <=
          Cardinality({i \in LRS : Pre.ich_lr_el2[i].state = "inactive"})

\* the timer interrupt of the VM is in a list register that is not
\* inactive
TimerResident(cif) ==
    \E i \in LRS : /\ cif.ich_lr_el2[i].vintid = vtimer.phys_ns_irq
                   /\ cif.ich_lr_el2[i].state # "inactive"

\* the group of entry e is enabled in the VMCR
GroupOn(e, cif) ==
    IF e.group = 1 THEN cif.ich_vmcr_el2.veng1 ELSE cif.ich_vmcr_el2.veng0

\* an entry the fast path has to place: enabled, its group enabled in
\* the VMCR, and not a timer-clock entry held back behind a resident
\* timer interrupt
Placeable(e) ==
    /\ e.enabled
    /\ GroupOn(e, Pre)
    /\ ~(e.irqtype = VGIC_IRQ_CLK /\ TimerResident(Pre))

\* the sequence a is b with some elements left out
RECURSIVE IsSubseq(_, _)
IsSubseq(a, b) ==
    IF a = << >> THEN TRUE
    ELSE IF b = << >> THEN FALSE
    ELSE IF Head(a) = Head(b) THEN IsSubseq(Tail(a), Tail(b))
    ELSE IsSubseq(a, Tail(b))

\* C18: on the fast path (no more buffered entries than inactive list
\* registers) every buffered entry that is enabled, with its group
\* enabled in the VMCR, and not a held-back timer entry is afterwards in
\* a list register, pending, with its ID, group and priority; the
\* entries go to inactive registers of increasing index in arrival
\* order; the placed entries are gone from the buffer and the others
\* keep their order.
C18_FastPath ==
    FastPass =>
        /\ \A e \in Range(Pre.irqbuf) :
              Placeable(e) => Count(Written, e) = Count(Pre.irqbuf, e)
        /\ \A k \in DOMAIN last.writes :
              LET w == last.writes[k]
              IN  /\ Pre.ich_lr_el2[w.lr_idx].state = "inactive"
                  /\ Post.ich_lr_el2[w.lr_idx] =
                        [state |-> "pending", vintid |-> w.vip.irq,
                         group |-> w.vip.group, priority |-> w.vip.priority]
                  /\ \A j \in DOMAIN last.writes :
                        j < k => last.writes[j].lr_idx < w.lr_idx
        /\ IsSubseq(Written, Pre.irqbuf)
        /\ IsSubseq(Post.irqbuf, Pre.irqbuf)
        /\ Len(Post.irqbuf) <= Len(Pre.irqbuf) - Len(Written)

\* a fast pass skipped a disabled entry and placed the one behind it
C18_Witness ==
    /\ FastPass
    /\ Len(Pre.irqbuf) = 2
    /\ ~Pre.irqbuf[1].enabled
    /\ Written = <<Pre.irqbuf[2]>>
    /\ Post.irqbuf = <<Pre.irqbuf[1]>>

\* C19: when a list register that is not inactive holds the timer
\* interrupt at the start of a pass, the pass places no buffered
\* timer-clock entry, those entries stay buffered, and the entries of
\* other types are still placed.
C19_AntiStarvation ==
    (SyncPass /\ TimerResident(Pre)) =>
        /\ \A k \in DOMAIN last.writes :
              last.writes[k].vip.irqtype # VGIC_IRQ_CLK
        /\ \A e \in Range(Pre.irqbuf) :
              e.irqtype = VGIC_IRQ_CLK =>
                  Count(Post.irqbuf, e) = Count(Pre.irqbuf, e)
        /\ \A e \in Range(Pre.irqbuf) :
              (e.irqtype # VGIC_IRQ_CLK /\ e.enabled /\ GroupOn(e, Pre)) =>
                  Count(Written, e) = Count(Pre.irqbuf, e)

\* the state of list register i of vCPU v changes in this step from a
\* to b
LrMoves(v, i, a, b) ==
    /\ cpu_if[v].ich_lr_el2[i].state = a
    /\ cpu_if'[v].ich_lr_el2[i].state = b

\* the changes of state the list-register state machine allows to the
\* guest, the hardware and every operation
LrMovesAllowed(v, i) ==
    \/ cpu_if'[v].ich_lr_el2[i].state = cpu_if[v].ich_lr_el2[i].state
    \/ LrMoves(v, i, "inactive", "pending") /\ last'.op = "sync"
    \/ LrMoves(v, i, "pending", "active")
    \/ LrMoves(v, i, "pending", "inactive")
    \/ LrMoves(v, i, "active", "inactive")
    \/ LrMoves(v, i, "active", "pending_active")
    \/ LrMoves(v, i, "pending_active", "active")

\* vgic_v3_remove_irq with ignore_state set takes the interrupt it names
\* out of a pending-active list register
LrForcedRemove(v, i) ==
    /\ LrMoves(v, i, "pending_active", "inactive")
    /\ last'.op = "remove" /\ last'.ignore_state /\ last'.v = v
    /\ cpu_if[v].ich_lr_el2[i].vintid = last'.irq

\* C20 as stated: across all operations and guest steps a list register
\* changes state only inactive->pending (by the synchronizer),
\* pending->active, pending->inactive, active->inactive,
\* active->pending-active or pending-active->active; nothing moves it
\* from pending-active directly to inactive.
C20_OnlyListedMoves ==
    [][\A v \in VCPUS, i \in LRS : LrMovesAllowed(v, i)]_vars

\* C20, amended: a list register changes state only by the listed
\* moves, or from pending-active to inactive by vgic_v3_remove_irq with
\* ignore_state set on the interrupt it holds; only the synchronizer
\* makes a list register pending.
C20_Moves ==
    [][\A v \in VCPUS, i \in LRS :
          LrMovesAllowed(v, i) \/ LrForcedRemove(v, i)]_vars

\* a remove with ignore_state set has just cleared a pending-active list
\* register
C20_Witness ==
    /\ last.op = "remove" /\ last.ignore_state /\ last.ret = 0
    /\ \E i \in LRS :
          /\ Pre.ich_lr_el2[i].state = "pending_active"
          /\ Pre.ich_lr_el2[i].vintid = last.irq
          /\ Post.ich_lr_el2[i].state = "inactive"

\* C21: a synchronization pass places no entry whose group is disabled
\* in GICD_CTLR at the time of the pass, whatever group toggles, ID
\* toggles and injections came before it.
C21_GroupReevaluated ==
    SyncPass =>
        \A k \in DOMAIN last.writes :
            (IF last.writes[k].vip.group = 1 THEN "G1A" ELSE "G1")
                \in dist.gicd_ctlr

\* the enable bit of interrupt irq as vCPU v sees it: GICR_ISENABLER0
\* for a private interrupt, GICD_ISENABLER<n> for a shared one
IdEnabled(irq, v) ==
    IF irq <= GIC_LAST_PPI
    THEN (irq % 32) \in redist[v].gicr_ixenabler0
    ELSE (irq % 32) \in dist.gicd_ixenabler[irq \div 32]

\* a bulk toggle of group last.irq to last.val has returned
GroupToggled == last.op = "toggle_group"

\* C22: after vgic_v3_irq_toggle_group_enabled(group, false) every
\* buffered entry of the group, in the buffer of every vCPU, is disabled;
\* after (group, true) every buffered entry of the group whose ID is
\* enabled is enabled; the entries of the other group are as before, and
\* so are the ID, type, group and priority of every entry.
C22_BulkToggle ==
    GroupToggled =>
        \A v \in VCPUS :
            /\ Len(cpu_if[v].irqbuf) = Len(last.pre_all[v].irqbuf)
            /\ \A k \in DOMAIN cpu_if[v].irqbuf :
                  LET a == last.pre_all[v].irqbuf[k]
                      b == cpu_if[v].irqbuf[k]
                  IN  /\ b.irq = a.irq /\ b.irqtype = a.irqtype
                      /\ b.group = a.group /\ b.priority = a.priority
                      /\ a.group # last.irq => b = a
                      /\ (a.group = last.irq /\ ~last.val) => ~b.enabled
                      /\ (a.group = last.irq /\ last.val
                            /\ IdEnabled(a.irq, v)) => b.enabled

\* group 1 was switched off while the buffer of vCPU 1 held an enabled
\* entry of group 1 and an enabled entry of group 0
C22_Witness ==
    /\ GroupToggled /\ last.irq = 1 /\ ~last.val
    /\ \E j, k \in DOMAIN cpu_if[1].irqbuf :
          /\ last.pre_all[1].irqbuf[j].group = 1
          /\ last.pre_all[1].irqbuf[j].enabled
          /\ ~cpu_if[1].irqbuf[j].enabled
          /\ cpu_if[1].irqbuf[k].group = 0
          /\ cpu_if[1].irqbuf[k].enabled

\* an injection that buffered an entry
Buffered == last.op = "inject" /\ last.ret = 0

\* the entry the injection appended
NewEntry == Post.irqbuf[Len(Post.irqbuf)]

\* vCPU v takes part in the 1-of-N selection for a group: its
\* GICR_CTLR does not disable the selection (DPG0, DPG1NS) for it
Participates(group, v) ==
    IF group = 0 THEN "DPG0" \notin redist[v].gicr_ctlr
    ELSE "DPG1NS" \notin redist[v].gicr_ctlr

\* the group bit of a shared interrupt in GICD_IGROUPR<n>
SharedGroup(irq) ==
    IF (irq % 32) \in dist.gicd_igroupr[irq \div 32] THEN 1 ELSE 0

\* the answer the routing query has to give for interrupt irq on vCPU v
IsTarget(irq, v) ==
    IF irq <= GIC_LAST_PPI THEN TRUE
    ELSE IF "ARE_NS" \notin dist.gicd_ctlr THEN TRUE
    ELSE IF dist.gicd_irouter[irq].irm
    THEN Participates(SharedGroup(irq), v)
    ELSE redist[v].aff = dist.gicd_irouter[irq].aff

\* C23: vgic_v3_int_target(irq, vcpu) is true for every private
\* interrupt, for a shared one on every vCPU without affinity routing,
\* under 1-of-N routing exactly on the vCPUs participating in the
\* interrupt's group, and otherwise exactly on the vCPU whose affinity
\* is the one in GICD_IROUTER<irq>.  The injection stores the answer,
\* joined with the group and ID enables, in the entry it buffers.
C23_Routing ==
    Buffered =>
        (NewEntry.enabled <=>
            /\ CtlrBit(NewEntry.group) \in dist.gicd_ctlr
            /\ IdEnabled(last.irq, last.v)
            /\ IsTarget(last.irq, last.v))

\* the 8-bit priority field of interrupt irq: byte irq mod 4 of priority
\* word irq div 4, of the Redistributor of vCPU v for a private interrupt
\* under affinity routing, of the Distributor otherwise
PriorityOf(irq, v) ==
    IF "ARE_NS" \in dist.gicd_ctlr /\ irq <= GIC_LAST_PPI
    THEN redist[v].gicr_ipriorityr[irq \div 4][(irq % 4) + 1]
    ELSE dist.gicd_ipriorityr[irq \div 4][(irq % 4) + 1]

\* the group bit of interrupt irq: bit irq mod 32 of group word irq div 32
GroupOf(irq, v) ==
    IF irq <= GIC_LAST_PPI
    THEN (IF (irq % 32) \in redist[v].gicr_igroupr0 THEN 1 ELSE 0)
    ELSE (IF (irq % 32) \in dist.gicd_igroupr[irq \div 32] THEN 1 ELSE 0)

\* C24: the entry an injection buffers carries the priority field and the
\* group bit its interrupt ID has in the Distributor (the Redistributor
\* for a private ID) at that moment.
C24_Snapshot ==
    Buffered =>
        /\ NewEntry.priority = PriorityOf(last.irq, last.v)
        /\ NewEntry.group = GroupOf(last.irq, last.v)

\* the timer is enabled by the control value ctl: ENABLE set, IMASK clear
TimerOn(ctl) == (ctl \div 2) % 2 = 0 /\ ctl % 2 = 1

\* a step of the control-register write of vCPU 0 up to its call of
\* vtimer_schedule_irq or vtimer_remove_irq
CtlWriteStep ==
    /\ run[0] = "host"
    /\ \/ vtimer_cpu'[0].cntp_ctl_el0 # vtimer_cpu[0].cntp_ctl_el0
       \/ run'[0] \in {"ctl_schedule", "ctl_drain"}

\* the step of vtimer_schedule_irq that ends the control-register write
CtlScheduleStep == run[0] = "ctl_schedule" /\ run'[0] = "host"

\* the callout function of vCPU 0 has run
CalloutRanStep ==
    vtimer_cpu[0].callout.running /\ ~vtimer_cpu'[0].callout.running

\* the buffer of vCPU 0 has one more entry, a timer-clock entry of the
\* timer interrupt, and nothing else of the cpu_if has changed
TimerInjected ==
    /\ Len(cpu_if'[0].irqbuf) = Len(cpu_if[0].irqbuf) + 1
    /\ SubSeq(cpu_if'[0].irqbuf, 1, Len(cpu_if[0].irqbuf)) = cpu_if[0].irqbuf
    /\ cpu_if'[0].irqbuf[Len(cpu_if'[0].irqbuf)].irq = vtimer.phys_ns_irq
    /\ cpu_if'[0].irqbuf[Len(cpu_if'[0].irqbuf)].irqtype = VGIC_IRQ_CLK
    /\ cpu_if'[0].ich_lr_el2 = cpu_if[0].ich_lr_el2

\* C25: a control-register write that takes the timer from disabled to
\* enabled goes on to vtimer_schedule_irq, which injects the timer
\* interrupt as a timer-clock entry when the stored deadline is in the
\* past and otherwise arms the (idle) callout for the deadline, once; the
\* callout function injects one timer-clock entry; a control write that
\* leaves the enabled-ness as it was arms, cancels and injects nothing.
C25_TimerEnable ==
    [][/\ CtlWriteStep =>
            /\ (~TimerOn(vtimer_cpu[0].cntp_ctl_el0)
                  /\ TimerOn(vtimer_cpu'[0].cntp_ctl_el0))
                 => run'[0] = "ctl_schedule"
            /\ (TimerOn(vtimer_cpu[0].cntp_ctl_el0)
                  <=> TimerOn(vtimer_cpu'[0].cntp_ctl_el0))
                 => run'[0] = "host"
            /\ vtimer_cpu'[0].callout = vtimer_cpu[0].callout
            /\ cpu_if' = cpu_if
       /\ CtlScheduleStep =>
            /\ ~vtimer_cpu[0].callout.pending
            /\ ~vtimer_cpu[0].callout.running
            /\ IF vtimer_cpu[0].cntp_cval_el0 < cntpct
               THEN TimerInjected /\ vtimer_cpu' = vtimer_cpu
               ELSE /\ vtimer_cpu'[0].callout.pending
                    /\ vtimer_cpu'[0].callout.c_time =
                          vtimer_cpu[0].cntp_cval_el0
                    /\ cpu_if' = cpu_if
       /\ CalloutRanStep => TimerInjected
      ]_vars

\* the control write has enabled the timer with its deadline ahead and
\* the callout is armed for the deadline
C25_Witness ==
    /\ last.op = "ctl_schedule"
    /\ TimerOn(vtimer_cpu[0].cntp_ctl_el0)
    /\ vtimer_cpu[0].callout.pending
    /\ vtimer_cpu[0].callout.c_time = vtimer_cpu[0].cntp_cval_el0
    /\ vtimer_cpu[0].cntp_cval_el0 > 0

\* the control-register write that disabled the timer of vCPU last.v has
\* returned: its vtimer_remove_irq was the last operation
DisableReturned ==
    /\ last.op = "remove"
    /\ last.irq = vtimer.phys_ns_irq
    /\ run[last.v] = "host"

\* C26: when the control-register write that disables an enabled timer
\* returns, the buffer of the vCPU holds no entry of the timer interrupt,
\* no list register holds the timer interrupt pending, and a list
\* register that held it active or pending-active is as it was.
C26_TimerDisable ==
    DisableReturned =>
        /\ \A k \in DOMAIN Post.irqbuf :
              Post.irqbuf[k].irq # vtimer.phys_ns_irq
        /\ \A i \in LRS :
              ~(/\ Post.ich_lr_el2[i].vintid = vtimer.phys_ns_irq
                /\ Post.ich_lr_el2[i].state = "pending")
        /\ \A i \in LRS :
              (/\ Pre.ich_lr_el2[i].vintid = vtimer.phys_ns_irq
               /\ Pre.ich_lr_el2[i].state \in {"active", "pending_active"})
                 => Post.ich_lr_el2[i] = Pre.ich_lr_el2[i]

\* a step of a write of the compare-value or countdown register of
\* vCPU 0, up to its call of vtimer_remove_irq
DeadlineWriteStep ==
    /\ run[0] = "host"
    /\ \/ vtimer_cpu'[0].cntp_cval_el0 # vtimer_cpu[0].cntp_cval_el0
       \/ run'[0] = "cval_drain"

\* the step of vtimer_schedule_irq that ends such a write
DeadlineScheduleStep == run[0] = "cval_schedule" /\ run'[0] = "host"

\* the callout of vCPU 0 fires while the vCPU is outside every handler
FiresOutsideHandler ==
    /\ run[0] \in {"host", "guest"}
    /\ vtimer_cpu[0].callout.pending
    /\ ~vtimer_cpu'[0].callout.pending

\* C27: a write of the compare-value or countdown register with the
\* timer enabled goes on to cancel the outstanding callout and then
\* leaves the callout armed once, for the new deadline, or injects the
\* timer interrupt when the new deadline is in the past; a callout that
\* fires after the write has returned was armed for the stored deadline.
\* With the timer disabled the write changes the stored deadline only.
C27_DeadlineWrite ==
    [][/\ DeadlineWriteStep =>
            /\ vtimer_cpu'[0].cntp_ctl_el0 = vtimer_cpu[0].cntp_ctl_el0
            /\ vtimer_cpu'[0].callout = vtimer_cpu[0].callout
            /\ cpu_if' = cpu_if
            /\ run'[0] = IF TimerOn(vtimer_cpu[0].cntp_ctl_el0)
                         THEN "cval_drain" ELSE "host"
       /\ (run[0] = "cval_drain" /\ run'[0] # "cval_drain") =>
            /\ ~vtimer_cpu'[0].callout.pending
            /\ ~vtimer_cpu'[0].callout.running
       /\ DeadlineScheduleStep =>
            /\ ~vtimer_cpu[0].callout.pending
            /\ ~vtimer_cpu[0].callout.running
            /\ IF vtimer_cpu[0].cntp_cval_el0 < cntpct
               THEN TimerInjected /\ vtimer_cpu' = vtimer_cpu
               ELSE /\ vtimer_cpu'[0].callout.pending
                    /\ vtimer_cpu'[0].callout.c_time =
                          vtimer_cpu[0].cntp_cval_el0
                    /\ cpu_if' = cpu_if
       /\ FiresOutsideHandler =>
            vtimer_cpu[0].callout.c_time = vtimer_cpu[0].cntp_cval_el0
      ]_vars

\* a deadline write with the timer enabled has returned: the callout
\* that was armed for the old deadline is armed for the new one
C27_Witness ==
    /\ last.op = "cval_schedule"
    /\ run[0] = "host"
    /\ TimerOn(vtimer_cpu[0].cntp_ctl_el0)
    /\ vtimer_cpu[0].callout.pending
    /\ vtimer_cpu[0].callout.c_time = vtimer_cpu[0].cntp_cval_el0
    /\ vtimer_cpu[0].cntp_cval_el0 = MaxTime

\* a read of the control register of vCPU last.v has returned last.ret
CtlReadDone == last.op = "ctl_read"

\* the timer interrupt is in the buffer or in a list register of vCPU v
TimerDelivered(v) ==
    \/ \E k \in DOMAIN cpu_if[v].irqbuf :
          cpu_if[v].irqbuf[k].irq = vtimer.phys_ns_irq
    \/ \E i \in LRS :
          /\ cpu_if[v].ich_lr_el2[i].vintid = vtimer.phys_ns_irq
          /\ cpu_if[v].ich_lr_el2[i].state # "inactive"

\* C28: a read of the control register returns the stored control value
\* with the status bit (bit 2) set when the counter has passed the
\* stored deadline and clear when it has not, whether or not the timer
\* interrupt is buffered or in a list register; the read leaves the
\* timer, the buffers and the list registers as they were.
C28_CtlRead ==
    [][last'.op = "ctl_read" =>
          /\ (last'.ret \div 4) % 2 =
                (IF cntpct > vtimer_cpu[last'.v].cntp_cval_el0
                 THEN 1 ELSE 0)
          /\ last'.ret % 4 = vtimer_cpu[last'.v].cntp_ctl_el0 % 4
          /\ last'.ret \div 8 = vtimer_cpu[last'.v].cntp_ctl_el0 \div 8
          /\ vtimer_cpu' = vtimer_cpu
          /\ cntpct' = cntpct
          /\ cpu_if' = cpu_if
      ]_vars

\* a read returned the status bit set while the enabled timer's
\* interrupt was neither buffered nor in a list register
C28_Witness ==
    /\ CtlReadDone
    /\ (last.ret \div 4) % 2 = 1
    /\ last.ret % 4 = CNTP_CTL_ENABLE
    /\ ~TimerDelivered(last.v)

\* vCPU 0 enters the guest
GuestEntryStep == run[0] # "guest" /\ run'[0] = "guest"

\* a synchronization pass of vCPU 0 returns
SyncStep == last'.op = "sync" /\ last'.v = 0 /\ last' # last

\* C29: in arm_vmrun every guest entry comes straight after one
\* synchronization pass of the vCPU: the guest is entered only from the
\* point a pass has just reached, that point is reached by a pass only
\* and left by the guest entry only, and a pass starts only at the top
\* of the loop, so no entry goes without a pass since the last exit and
\* no two passes go without an entry between them.
C29_SyncBeforeEntry ==
    [][/\ GuestEntryStep => run[0] = "synced"
       /\ (run[0] # "synced" /\ run'[0] = "synced") =>
             (SyncStep /\ run[0] = "vmrun")
       /\ (run[0] = "synced" /\ run'[0] # "synced") => run'[0] = "guest"
       /\ (run[0] = "synced" \/ run[0] = "guest") => ~SyncStep
      ]_vars

\* the guest has been entered for the second time, after a pass that
\* placed an interrupt next to the one the guest took during its first
\* stay
C29_Witness ==
    /\ last.op = "enter"
    /\ run[0] = "guest"
    /\ \E i, j \in LRS :
          /\ cpu_if[0].ich_lr_el2[i].state = "active"
          /\ cpu_if[0].ich_lr_el2[j].state = "pending"

\* arm_vmrun has classified an exit of the guest
ExitDone == last.op = "vmexit"

\* the exit is a trap of a system-register access
SysRegTrap == last.exc.excp_type = "EL1_SYNC" /\ last.exc.esr_ec = "MSR"

\* the exit is a data abort with a valid instruction syndrome, caused by
\* a translation fault
EmulableAbort ==
    /\ last.exc.excp_type = "EL1_SYNC"
    /\ last.exc.esr_ec = "DATA_ABORT_L"
    /\ last.exc.isv
    /\ last.exc.dfsc_tf

\* C30: whatever exception type and syndrome the guest returns with,
\* the loop sets an exit code and returns to its caller without a panic;
\* a system-register trap gives the register-emulation exit, a data
\* abort with a valid syndrome on a translation fault gives the
\* instruction-emulation exit, and a synchronous exception of any other
\* class or syndrome gives the unhandled-hypervisor exit.
C30_ExitClassification ==
    ExitDone =>
        /\ ~panicked
        /\ run[last.v] = "host"
        /\ last.exitcode \in {"REG_EMUL", "INST_EMUL", "HYP", "BOGUS"}
        /\ SysRegTrap => last.exitcode = "REG_EMUL"
        /\ EmulableAbort => last.exitcode = "INST_EMUL"
        /\ (last.exc.excp_type = "EL1_SYNC" /\ ~SysRegTrap /\ ~EmulableAbort)
              => last.exitcode = "HYP"

\* a data abort without a valid instruction syndrome came back as the
\* unhandled-hypervisor exit
C30_Witness ==
    /\ ExitDone
    /\ last.exc.excp_type = "EL1_SYNC"
    /\ last.exc.esr_ec = "DATA_ABORT_L"
    /\ ~last.exc.isv
    /\ last.exitcode = "HYP"
    /\ run[last.v] = "host"

(* ------------------------------------------------------------------ *)
(* C31: an inject that has to grow the buffer returns and releases the  *)
(* lr_mtx even when the non-blocking allocation keeps failing, so a     *)
(* synchronization pass waiting for the lr_mtx of that vCPU eventually  *)
(* acquires it.                                                         *)
(* ------------------------------------------------------------------ *)
SyncWaits == At("vcpu", "lock_lr") /\ ~panicked

SyncAcquired == locks.lr_mtx[0] = "vcpu"

C31_InjectReturns == SyncWaits ~> SyncAcquired

(* ------------------------------------------------------------------ *)
(* C32: an injected interrupt instance is delivered to one vCPU only.   *)
(* An injection adds one entry to the buffer of the vCPU it names and   *)
(* touches no other vCPU; a synchronization pass moves each entry it    *)
(* takes into one list register of the same vCPU and touches no other   *)
(* vCPU; and a shared interrupt routed 1-of-N is scheduled into a list  *)
(* register only on a vCPU that participates in the selection for the   *)
(* interrupt's group at that moment.                                    *)
(* ------------------------------------------------------------------ *)
OneOfN(irq) ==
    /\ irq > GIC_LAST_PPI
    /\ "ARE_NS" \in dist.gicd_ctlr
    /\ dist.gicd_irouter[irq].irm

OthersUntouched(v) == \A u \in VCPUS \ {v} : cpu_if'[u] = cpu_if[u]

C32_InjectStep ==
    (last'.op = "inject") =>
        /\ OthersUntouched(last'.v)
        /\ cpu_if'[last'.v].ich_lr_el2 = cpu_if[last'.v].ich_lr_el2
        /\ Len(cpu_if'[last'.v].irqbuf) <= Len(cpu_if[last'.v].irqbuf) + 1

C32_SyncStep ==
    (last'.op = "sync") =>
        /\ OthersUntouched(last'.v)
        /\ Len(cpu_if[last'.v].irqbuf) - Len(cpu_if'[last'.v].irqbuf)
              = Len(last'.writes)
        /\ \A k \in DOMAIN last'.writes :
              OneOfN(last'.writes[k].vip.irq) =>
                  Participates(SharedGroup(last'.writes[k].vip.irq), last'.v)

C32_SingleDelivery == [][C32_InjectStep /\ C32_SyncStep]_vars

(* ------------------------------------------------------------------ *)
(* C33: arbitration order of the overflow path.  Every call of          *)
(* vgic_v3_highest_priority_pending returns an entry that passes the    *)
(* eligibility tests and whose priority value no other such entry       *)
(* exceeds, no other such entry of the same priority having a lower     *)
(* delivery-type ordinal; it returns none only when no entry passes.    *)
(* ------------------------------------------------------------------ *)
ArbPass == last.op = "arbitrate"

\* the entry call p returned
Chosen(p) == p.irqbuf[p.idx + 1]

\* the entries call p had to choose from
Candidates(p) ==
    {k \in DOMAIN p.irqbuf : Eligible(p.irqbuf[k], last.v)}

C33_ArbitrationOrder ==
    ArbPass =>
      \A n \in DOMAIN last.writes :
        LET p == last.writes[n]
        IN  IF p.idx = -1 THEN Candidates(p) = {}
            ELSE /\ (p.idx + 1) \in Candidates(p)
                 /\ \A k \in Candidates(p) :
                      /\ p.irqbuf[k].priority <= Chosen(p).priority
                      /\ p.irqbuf[k].priority = Chosen(p).priority =>
                            p.irqbuf[k].irqtype >= Chosen(p).irqtype

\* a pass whose first call passed over an earlier entry of lower priority
\* value and an earlier entry of the same priority and a higher
\* delivery-type ordinal, and which made a second call
C33_Witness ==
    /\ ArbPass
    /\ Len(last.writes) >= 2
    /\ LET p == last.writes[1]
       IN  /\ p.idx > 0
           /\ \E k \in Candidates(p) :
                 k < p.idx + 1 /\ p.irqbuf[k].priority < Chosen(p).priority
           /\ \E k \in Candidates(p) :
                 /\ k < p.idx + 1
                 /\ p.irqbuf[k].priority = Chosen(p).priority
                 /\ p.irqbuf[k].irqtype > Chosen(p).irqtype

(* ------------------------------------------------------------------ *)
(* C34: eligibility in the overflow arbitration.  An entry returned by  *)
(* vgic_v3_highest_priority_pending does not carry the sentinel ID, its *)
(* interrupt's group is enabled in the Distributor, its interrupt ID is *)
(* enabled, the vCPU is a valid target for it and its priority value is *)
(* below the vCPU's priority mask; no entry is returned twice within    *)
(* one pass.                                                            *)
(* ------------------------------------------------------------------ *)
MaySelect(e, v) ==
    /\ e.irq # IRQ_SCHEDULED
    /\ CtlrBit(GroupOf(e.irq, v)) \in dist.gicd_ctlr
    /\ IdEnabled(e.irq, v)
    /\ IsTarget(e.irq, v)
    /\ e.priority < cpu_if[v].ich_vmcr_el2.vpmr

C34_Eligibility ==
    ArbPass =>
      /\ \A n \in DOMAIN last.writes :
            last.writes[n].idx # -1 =>
                MaySelect(Chosen(last.writes[n]), last.v)
      /\ \A n, m \in DOMAIN last.writes :
            (n # m /\ last.writes[n].idx # -1) =>
                last.writes[n].idx # last.writes[m].idx

(* ------------------------------------------------------------------ *)
(* C35: set_priority(irq, p) and set_group(irq, g) leave the priority   *)
(* and group fields of every list register that holds another interrupt *)
(* ID as they were, whatever the register's state.                      *)
(* ------------------------------------------------------------------ *)
FieldUpdated == last.op \in {"set_priority", "set_group"}

C35_UpdateFrame ==
    FieldUpdated =>
      \A i \in LRS :
        Pre.ich_lr_el2[i].vintid # last.irq =>
          /\ Post.ich_lr_el2[i].priority = Pre.ich_lr_el2[i].priority
          /\ Post.ich_lr_el2[i].group = Pre.ich_lr_el2[i].group

(* ------------------------------------------------------------------ *)
(* C36: a synchronization pass writes the timer interrupt into a list   *)
(* register only when no list register of the vCPU holds the timer      *)
(* interrupt active or pending: a pass that started with no resident    *)
(* timer interrupt writes at most one, and after every pass at most one *)
(* list register that is not inactive holds the timer interrupt.        *)
(* ------------------------------------------------------------------ *)
TimerSlots(cif) ==
    {i \in LRS : cif.ich_lr_el2[i].vintid = TIMER_INTID
                 /\ cif.ich_lr_el2[i].state # "inactive"}

TimerWrites ==
    {k \in DOMAIN last.writes : last.writes[k].vip.irqtype = VGIC_IRQ_CLK}

C36_OneTimerSlot ==
    (last.op = "sync") =>
        /\ Cardinality(TimerWrites) + Cardinality(TimerSlots(Pre)) <= 1
        /\ Cardinality(TimerSlots(Post)) <= 1

(* ------------------------------------------------------------------ *)
(* C37: the sentinel ID is transient.  Whenever the lr_mtx of a vCPU is *)
(* not held, no entry of the vCPU's buffer carries the ID               *)
(* IRQ_SCHEDULED: the buffer holds only interrupts that are still to be *)
(* scheduled.                                                           *)
(* ------------------------------------------------------------------ *)
Sentinels(cif) ==
    {k \in DOMAIN cif.irqbuf : cif.irqbuf[k].irq = IRQ_SCHEDULED}

C37_SentinelTransient ==
    \A v \in VCPUS :
        locks.lr_mtx[v] = "free" => Sentinels(cpu_if[v]) = {}

(* ------------------------------------------------------------------ *)
(* C38: no interrupt accepted by vgic_v3_inject_irq has the ID          *)
(* IRQ_SCHEDULED, whatever the configured interrupt count; hence the    *)
(* purge at the end of a synchronization pass removes exactly the       *)
(* entries the pass has placed into list registers.                     *)
(* ------------------------------------------------------------------ *)
C38_SentinelNotInjectable ==
    /\ (last.op = "inject" /\ last.ret = 0) => last.irq # IRQ_SCHEDULED
    /\ (last.op = "sync") =>
          Len(Pre.irqbuf) - Len(Post.irqbuf) = Len(last.writes)

(* ------------------------------------------------------------------ *)
(* C39: outside the register-write handlers the callout of a vCPU is    *)
(* outstanding (scheduled or its function running) only while the timer *)
(* is enabled (enable bit set, mask bit clear), and it is never both    *)
(* scheduled and running: at most one callback is outstanding, whatever *)
(* control, compare-value and countdown writes and callout firings came *)
(* before.                                                              *)
(* ------------------------------------------------------------------ *)
Outstanding(c) == c.pending \/ c.running

C39_OneCallout ==
    \A v \in VCPUS :
        /\ (Outstanding(vtimer_cpu[v].callout) /\ run[v] \in {"host", "guest"})
              => (/\ vtimer_cpu[v].cntp_ctl_el0 % (2 * CNTP_CTL_ENABLE)
                        >= CNTP_CTL_ENABLE
                  /\ vtimer_cpu[v].cntp_ctl_el0 % (2 * CNTP_CTL_IMASK)
                        < CNTP_CTL_IMASK)
        /\ ~(vtimer_cpu[v].callout.pending /\ vtimer_cpu[v].callout.running)

\* a compare-value or countdown write has armed the callout again after
\* its function had run and injected the timer interrupt
C39_Witness ==
    /\ last.op = "cval_schedule"
    /\ run[0] = "host"
    /\ vtimer_cpu[0].callout.pending
    /\ TimerEntries(cpu_if[0].irqbuf) = {}
    /\ \E i \in LRS : cpu_if[0].ich_lr_el2[i].vintid = vtimer.phys_ns_irq

(* ------------------------------------------------------------------ *)
(* C40: the ID-level enable toggle on one vCPU.  Disabling irq removes  *)
(* every buffered entry with ID irq and makes inactive every list       *)
(* register that holds irq pending; list registers holding irq active   *)
(* or pending-active, and entries and list registers of other IDs, stay *)
(* as they were.  Enabling irq sets enabled on every buffered entry     *)
(* with ID irq and changes no list register and no other entry.         *)
(* ------------------------------------------------------------------ *)
IdToggled == last.op = "toggle_enabled"

C40_IdToggle ==
    IdToggled =>
      IF last.val
      THEN /\ Post.ich_lr_el2 = Pre.ich_lr_el2
           /\ Len(Post.irqbuf) = Len(Pre.irqbuf)
           /\ \A k \in DOMAIN Pre.irqbuf :
                 IF Pre.irqbuf[k].irq = last.irq
                 THEN Post.irqbuf[k] = [Pre.irqbuf[k] EXCEPT !.enabled = TRUE]
                 ELSE Post.irqbuf[k] = Pre.irqbuf[k]
      ELSE /\ LET Other(e) == e.irq # last.irq
              IN  Post.irqbuf = SelectSeq(Pre.irqbuf, Other)
           /\ \A i \in LRS :
                 IF /\ Pre.ich_lr_el2[i].vintid = last.irq
                    /\ Pre.ich_lr_el2[i].state = "pending"
                 THEN Post.ich_lr_el2[i] =
                         [Pre.ich_lr_el2[i] EXCEPT !.state = "inactive"]
                 ELSE Post.ich_lr_el2[i] = Pre.ich_lr_el2[i]

\* interrupt 40 has just been disabled with an entry of 40 and an entry
\* of the timer buffered, one list register holding 40 pending and the
\* other holding 40 active
C40_Witness ==
    /\ IdToggled /\ ~last.val /\ last.irq = 40
    /\ \E k \in DOMAIN Pre.irqbuf : Pre.irqbuf[k].irq = 40
    /\ \E k \in DOMAIN Pre.irqbuf : Pre.irqbuf[k].irq = TIMER_INTID
    /\ \E i, j \in LRS :
          /\ Pre.ich_lr_el2[i].vintid = 40
          /\ Pre.ich_lr_el2[i].state = "pending"
          /\ Pre.ich_lr_el2[j].vintid = 40
          /\ Pre.ich_lr_el2[j].state = "active"

====
